---- MODULE Spec2Model ----
(***************************************************************************)
(* State-machine model of the POS settlement core (reengineered/app):      *)
(* the Item ledger, the Coupon validator, the Rental tracker and the       *)
(* TransactionService settlement engine, over a relational store with      *)
(* session-level commit / rollback.                                        *)
(*                                                                         *)
(* Money.  The code computes with floats; here every amount is an integer  *)
(* number of ticks, Unit ticks to one currency unit, and every price is a  *)
(* whole number of currency units, so that  x * percent / 100  and         *)
(* x * 0.08  are exact integers (\div never rounds).                       *)
(*                                                                         *)
(* Optional values (Python None) are sets with at most one element.        *)
(***************************************************************************)
EXTENDS Integers, Sequences, FiniteSets, TLC

\* ------------------------------------------------------------------ bounds
MaxTxns == 2
MaxCartLen == 2
MaxTime == 2
MaxStock == 3
MaxOps == 4

\* -------------------------------------------------------- program constants
TaxRateNum == 8
TaxRateDen == 100
PercentDen == 100
FeePerDay == 2
LowStockThreshold == 10
TicksPerDay == 2

Unit == TaxRateDen * PercentDen

VARIABLES
    items,          \* items table: business key -> row
    coupons,        \* coupons table: stored (upper-case) code -> row
    customers,      \* customers table: set of phones
    transactions,   \* transactions table, in insertion order, each with its line items
    rentals,        \* rentals table, in insertion order
    now,            \* the clock (datetime.utcnow), in ticks
    last,           \* outcome of the last service call
    ledger,         \* history of the stock ledger calls (initial, added, removed)
    sess            \* the open database sessions of the concurrent callers

vars == <<items, coupons, customers, transactions, rentals, now, last, ledger, sess>>
db == <<items, coupons, customers, transactions, rentals>>

\* ------------------------------------------------------------ value spaces
ItemIds == {"I1", "I2", "R1"}
NoItem ==
    [present |-> FALSE, price |-> 0, quantity |-> 0, item_type |-> "sale", is_active |-> FALSE]

SALE == "sale"
RENTAL == "rental"
RETURN == "return"
CASH == "cash"
CREDIT == "credit"
DEBIT == "debit"

Codes == {"SAVE", "FLAT"}
NoCoupon == [present |-> FALSE, discount_percent |-> 0, discount_amount |-> 0,
             minimum_purchase |-> 0, max_uses |-> {}, times_used |-> 0,
             is_active |-> TRUE, expires_at |-> {}]

None == {}
Some(x) == {x}
The(opt) == CHOOSE x \in opt : TRUE

Max(a, b) == IF a >= b THEN a ELSE b
Min(a, b) == IF a <= b THEN a ELSE b

\* str.upper() on the codes that callers type
Upper(c) ==
    CASE c = "save" -> "SAVE"
      [] c = "flat" -> "FLAT"
      [] c = "none" -> "NONE"
      [] OTHER -> c

\* Python truthiness of an optional string argument (None and "" are falsy)
Truthy(opt) == opt # {} /\ opt # {""}

\* ---------------------------------------------------------------- Item
\* Item.add_stock: result of the call on row it
ItemAddStock(it, amount) ==
    IF amount < 0
    THEN [ok |-> FALSE, err |-> "InvalidQuantity", item |-> it]
    ELSE [ok |-> TRUE, err |-> "", item |-> [it EXCEPT !.quantity = @ + amount]]

\* a remove_stock that takes one unit whatever the amount
ItemRemoveStockOne(it, amount) ==
    IF amount < 0
    THEN [ok |-> FALSE, err |-> "InvalidQuantity", item |-> it]
    ELSE IF amount > it.quantity
    THEN [ok |-> FALSE, err |-> "InsufficientStock", item |-> it]
    ELSE [ok |-> TRUE, err |-> "", item |-> [it EXCEPT !.quantity = @ - 1]]

\* Item.remove_stock
ItemRemoveStock(it, amount) ==
    IF amount < 0
    THEN [ok |-> FALSE, err |-> "InvalidQuantity", item |-> it]
    ELSE IF amount > it.quantity
    THEN [ok |-> FALSE, err |-> "InsufficientStock", item |-> it]
    ELSE [ok |-> TRUE, err |-> "", item |-> [it EXCEPT !.quantity = @ - amount]]

\* ---------------------------------------------------------------- Coupon
IsExpired(c, t) == c.expires_at # {} /\ t > The(c.expires_at)

IsUsageExceeded(c) == c.max_uses # {} /\ c.times_used >= The(c.max_uses)

IsValid(c, t) == c.is_active /\ ~IsExpired(c, t) /\ ~IsUsageExceeded(c)

CanApplyToAmount(c, t, amount) == IsValid(c, t) /\ amount >= c.minimum_purchase

CalculateDiscount(c, t, amount) ==
    IF ~CanApplyToAmount(c, t, amount) THEN 0
    ELSE IF c.discount_percent > 0 THEN (amount * c.discount_percent) \div PercentDen
    ELSE IF c.discount_amount > 0 THEN Min(c.discount_amount, amount)
    ELSE 0

\* a use that counts twice
UseTwice(c) == [c EXCEPT !.times_used = @ + 2]

Use(c) == [c EXCEPT !.times_used = @ + 1]

\* CouponService.get_coupon_by_code: the stored code found, or None
GetCouponByCode(cs, code) ==
    IF Upper(code) \in DOMAIN cs /\ cs[Upper(code)].present THEN Some(Upper(code)) ELSE None

\* ---------------------------------------------------------- Transaction
RECURSIVE SumLines(_)
\* sum(item.quantity * item.unit_price for item in self.items.all())
SumLines(lines) ==
    IF lines = <<>> THEN 0
    ELSE Head(lines).quantity * Head(lines).unit_price + SumLines(Tail(lines))

\* Transaction.__init__ plus the column defaults
NewTransaction(number, type, customer, method, t) ==
    [transaction_number |-> number, transaction_type |-> type,
     customer |-> customer, coupon |-> None,
     subtotal |-> 0, discount_amount |-> 0, tax_amount |-> 0, total |-> 0,
     payment_method |-> method, amount_tendered |-> 0, change_given |-> 0,
     created_at |-> t, lines |-> <<>>]

\* the discount Transaction.calculate_totals stores: the coupon is looked up
\* again and must (still) be valid, and only discount_percent is used
TotalsDiscount(txn, cs, t, subtotal) ==
    IF txn.coupon # None /\ cs[The(txn.coupon)].present /\ IsValid(cs[The(txn.coupon)], t)
    THEN (subtotal * cs[The(txn.coupon)].discount_percent) \div PercentDen
    ELSE txn.discount_amount

\* Transaction.calculate_totals(tax_rate=0.08)
CalculateTotals(txn, cs, t) ==
    LET subtotal == SumLines(txn.lines)
        discount == TotalsDiscount(txn, cs, t, subtotal)
        taxable  == subtotal - discount
        tax      == (taxable * TaxRateNum) \div TaxRateDen
    IN [txn EXCEPT !.subtotal = subtotal, !.discount_amount = discount,
                   !.tax_amount = tax, !.total = taxable + tax]

\* the change without the floor at 0
ApplyPaymentNoFloor(txn, amount_tendered) ==
    IF txn.payment_method = CASH
    THEN [txn EXCEPT !.amount_tendered = amount_tendered,
                     !.change_given = amount_tendered - txn.total]
    ELSE [txn EXCEPT !.amount_tendered = amount_tendered]

\* Transaction.apply_payment
ApplyPayment(txn, amount_tendered) ==
    IF txn.payment_method = CASH
    THEN [txn EXCEPT !.amount_tendered = amount_tendered,
                     !.change_given = Max(0, amount_tendered - txn.total)]
    ELSE [txn EXCEPT !.amount_tendered = amount_tendered]

\* ------------------------------------------------------------- db session
\* A session (unit of work): the rows it has loaded and changed, the rows it
\* has added, and the exception raised so far ("" while none).
NewSession ==
    [seen |-> {}, items |-> [i \in ItemIds |-> NoItem], dirty |-> {},
     coupons |-> [c \in Codes |-> NoCoupon], cdirty |-> {},
     new_customers |-> {}, txn |-> None, new_rentals |-> <<>>, rentals |-> None,
     rdirty |-> {}, err |-> ""]

\* Item.query.filter_by(item_id=...).first() in session s over the table its:
\* a row already in the identity map is returned as the session holds it
SessItem(s, its, i) == IF i \in s.seen THEN s.items[i] ELSE its[i]

SessCoupon(s, cs, c) == IF c \in s.cdirty THEN s.coupons[c] ELSE cs[c]

SessCoupons(s, cs) == [c \in Codes |-> SessCoupon(s, cs, c)]

Raise(s, e) == [s EXCEPT !.err = e]

TxnNumbers(txns) == {txns[k].transaction_number : k \in 1..Len(txns)}

\* the same without the unique index on transaction_number
SaleBeginNoUnique(s, seen, custs, txns, number, method, phone, t) ==
    LET known == Truthy(phone) /\ The(phone) \in seen
        added == IF Truthy(phone) /\ ~known THEN {The(phone)} ELSE {}
        ref   == IF known THEN phone ELSE None
    IN [s EXCEPT !.new_customers = @ \cup added,
                 !.txn = Some(NewTransaction(number, SALE, ref, method, t))]

\* create_sale lines 55-71: resolve or create the customer (seen is the
\* table as the query of line 57 found it), build the Transaction, flush
\* both into the tables as they are by then (the unique constraints on
\* customers.phone and on transaction_number)
SaleBegin(s, seen, custs, txns, number, method, phone, t) ==
    LET known == Truthy(phone) /\ The(phone) \in seen
        added == IF Truthy(phone) /\ ~known THEN {The(phone)} ELSE {}
        \* a Customer added but not yet flushed has id None
        ref   == IF known THEN phone ELSE None
        s1    == [s EXCEPT !.new_customers = @ \cup added,
                           !.txn = Some(NewTransaction(number, SALE, ref, method, t))]
    IN IF added \cap custs # {} THEN Raise(s1, "IntegrityError: customers.phone")
       ELSE IF number \in TxnNumbers(txns) THEN Raise(s1, "IntegrityError")
       ELSE s1

\* one TransactionItem row
\* a line item whose unit_price is not filled in
LineItemNoPrice(i, q, price) == [item |-> i, quantity |-> q, unit_price |-> 0]

LineItem(i, q, price) == [item |-> i, quantity |-> q, unit_price |-> price]

\* the in-session stock decrement of one cart line (item.remove_stock)
DecrementLine(s, its, line) ==
    LET it == SessItem(s, its, line.item_id)
        r  == ItemRemoveStock(it, line.quantity)
    IN IF ~r.ok THEN Raise(s, r.err)
       ELSE [s EXCEPT !.seen = @ \cup {line.item_id},
                      !.dirty = @ \cup {line.item_id},
                      !.items[line.item_id] = r.item]

\* create_sale lines 74-97, one iteration of the loop
SaleLine(s, its, line) ==
    IF s.err # "" THEN s
    ELSE IF line.item_id \notin ItemIds \/ ~SessItem(s, its, line.item_id).present
    THEN Raise(s, "ItemNotFound")
    ELSE LET it == SessItem(s, its, line.item_id)
             s1 == [s EXCEPT !.seen = @ \cup {line.item_id},
                             !.items[line.item_id] = it]
         IN IF it.quantity < line.quantity THEN Raise(s1, "InsufficientStock")
            ELSE LET t0 == The(s1.txn)
                     t1 == [t0 EXCEPT !.lines =
                               Append(@, LineItem(line.item_id, line.quantity, it.price))]
                 IN DecrementLine([s1 EXCEPT !.txn = Some(t1)], its, line)

RECURSIVE SaleLines(_, _, _)
SaleLines(s, its, cart) ==
    IF cart = <<>> THEN s
    ELSE SaleLines(SaleLine(s, its, Head(cart)), its, Tail(cart))

\* a test that accepts a coupon at its usage cap
SaleCouponOkNoCap(c, t) == c.is_active /\ ~IsExpired(c, t)

\* the test create_sale applies to the coupon it found (line 103)
SaleCouponOk(c, t) == IsValid(c, t)

\* create_sale lines 99-105
SaleCoupon(s, cs, code, t) ==
    IF s.err # "" \/ ~Truthy(code) THEN s
    ELSE LET found == GetCouponByCode(SessCoupons(s, cs), The(code))
         IN IF found = None \/ ~SaleCouponOk(SessCoupon(s, cs, The(found)), t) THEN s
            ELSE [s EXCEPT !.txn = Some([The(@) EXCEPT !.coupon = found]),
                           !.cdirty = @ \cup found,
                           !.coupons[The(found)] = Use(SessCoupon(s, cs, The(found)))]

\* create_sale lines 107-111
SaleTotals(s, cs, amount_tendered, t) ==
    IF s.err # "" THEN s
    ELSE [s EXCEPT !.txn =
            Some(ApplyPayment(CalculateTotals(The(@), SessCoupons(s, cs), t), amount_tendered))]

\* a rollback that forgets to discard the stock decrements
RollbackKeepsStock(s) ==
    [NewSession EXCEPT !.err = s.err, !.seen = s.seen, !.items = s.items, !.dirty = s.dirty]

\* db.session.rollback(): everything the session holds is discarded
Rollback(s) == [NewSession EXCEPT !.err = s.err]

\* a handler that commits whatever its session holds, error or not
OutcomeKeepsAll(s) == s

\* what reaches the tables when the handler leaves its try block:
\* db.session.commit() on success, db.session.rollback() on an exception
Outcome(s) == IF s.err = "" THEN s ELSE Rollback(s)

\* UPDATE items SET quantity = <the session's value> for the rows changed
CommitItems(its, s) ==
    [i \in ItemIds |->
        IF i \in s.dirty THEN [its[i] EXCEPT !.quantity = s.items[i].quantity] ELSE its[i]]

\* a commit that loses the coupon rows the session changed
CommitCouponsLost(cs, s) == cs

CommitCoupons(cs, s) ==
    [c \in Codes |->
        IF c \in s.cdirty THEN [cs[c] EXCEPT !.times_used = s.coupons[c].times_used]
        ELSE cs[c]]

CommitTransactions(txns, s) == IF s.txn = None THEN txns ELSE Append(txns, The(s.txn))

\* UPDATE rentals SET returned, return_date, late_fee = <the session's values>
\* for the rows changed: the other columns and the other rows stay as stored
CommitRentals(rs, s) ==
    IF s.rentals = None THEN rs
    ELSE [k \in 1..Len(rs) |->
            IF k \in s.rdirty
            THEN [rs[k] EXCEPT !.returned = The(s.rentals)[k].returned,
                               !.return_date = The(s.rentals)[k].return_date,
                               !.late_fee = The(s.rentals)[k].late_fee]
            ELSE rs[k]]

\* the tables after the session ended (commit or rollback)
Settle(s) ==
    LET e == Outcome(s)
    IN /\ items' = CommitItems(items, e)
       /\ coupons' = CommitCoupons(coupons, e)
       /\ customers' = customers \cup e.new_customers
       /\ transactions' = CommitTransactions(transactions, e)
       /\ rentals' = CommitRentals(rentals, e) \o e.new_rentals

NoArgs == [none |-> TRUE]

\* the record of a call that returned, of a call that raised
Done(op, args) == [op |-> op, ok |-> TRUE, err |-> "", at |-> 0, args |-> args, ret |-> 0]
Failed(op, e, args, ret) ==
    [op |-> op, ok |-> FALSE, err |-> e, at |-> 0, args |-> args, ret |-> ret]

\* the record of a finished call: its name, whether it returned or raised,
\* the exception, the number of line items added before it, its arguments
\* (kept only of a call that returned)
Result(op, s, args) ==
    [op |-> op, ok |-> s.err = "", err |-> s.err,
     at |-> IF s.txn = None THEN 0 ELSE Len(The(s.txn).lines),
     args |-> IF s.err = "" THEN args ELSE NoArgs, ret |-> 0]

\* ------------------------------------------------------ TransactionService
\* the session of a whole create_sale call, run against the tables
SaleSession(seen, number, cart, method, amount_tendered, code, phone) ==
    LET s1 == SaleBegin(NewSession, seen, customers, transactions, number, method, phone, now)
        s2 == SaleLines(s1, items, cart)
        s3 == SaleCoupon(s2, coupons, code, now)
    IN SaleTotals(s3, coupons, amount_tendered, now)

\* TransactionService.create_sale
CreateSale(number, cart, method, amount_tendered, code, phone) ==
    /\ Len(transactions) < MaxTxns
    /\ LET s == SaleSession(customers, number, cart, method, amount_tendered, code, phone)
       IN /\ Settle(s)
          /\ last' = Result("create_sale", s, [cart |-> cart, code |-> code, phone |-> phone,
                                              amount_tendered |-> amount_tendered])
    /\ UNCHANGED <<now, sess>>

\* ---------------------------------------------------------------- Rental
\* a rental that falls due the moment it is made
NewRentalDueNow(customer, i, price, quantity, rental_days, number, t) ==
    [customer |-> customer, item |-> i, transaction |-> number,
     quantity |-> quantity, rental_price |-> price, rental_date |-> t,
     due_date |-> t,
     returned |-> FALSE, return_date |-> None, late_fee |-> 0]

\* Rental.__init__ plus the column defaults; days are whole days
NewRental(customer, i, price, quantity, rental_days, number, t) ==
    [customer |-> customer, item |-> i, transaction |-> number,
     quantity |-> quantity, rental_price |-> price, rental_date |-> t,
     due_date |-> t + rental_days * TicksPerDay,
     returned |-> FALSE, return_date |-> None, late_fee |-> 0]

IsOverdue(r, t) == IF r.returned THEN FALSE ELSE t > r.due_date

\* delta.days: the whole days in now - due_date
DaysOverdue(r, t) ==
    IF ~IsOverdue(r, t) THEN 0 ELSE Max(0, (t - r.due_date) \div TicksPerDay)

CalculateLateFee(r, t, fee_per_day) == DaysOverdue(r, t) * fee_per_day * r.quantity

\* Rental.process_return, the rental's own fields: returned and return_date
\* are set first, the late fee is computed from the row as it then is
RentalProcessReturn(r, t, fee_per_day) ==
    LET r1 == [r EXCEPT !.returned = TRUE, !.return_date = Some(t)]
    IN [r1 EXCEPT !.late_fee = CalculateLateFee(r1, t, fee_per_day)]

\* Rental.extend_rental
RentalExtend(r, additional_days) ==
    IF ~r.returned THEN [r EXCEPT !.due_date = @ + additional_days * TicksPerDay] ELSE r

\* create_rental lines 148-164: the customer is looked up (seen is the table
\* as the query at line 149 found it) and, when not found, inserted and
\* flushed into the table as it is by then (custs), where phone is unique
RentBegin(s, seen, custs, txns, number, method, phone, t) ==
    LET added == IF The(phone) \in seen THEN {} ELSE {The(phone)}
        s1    == [s EXCEPT !.new_customers = @ \cup added]
        s2    == [s1 EXCEPT !.txn = Some(NewTransaction(number, RENTAL, phone, method, t))]
    IN IF added \cap custs # {} THEN Raise(s1, "IntegrityError: customers.phone")
       ELSE IF number \in TxnNumbers(txns) THEN Raise(s2, "IntegrityError")
       ELSE s2

\* create_rental lines 167-204, one iteration of the loop
RentLine(s, its, line, rental_days, t) ==
    IF s.err # "" THEN s
    ELSE IF line.item_id \notin ItemIds \/ ~SessItem(s, its, line.item_id).present
    THEN Raise(s, "ItemNotFound")
    ELSE LET it == SessItem(s, its, line.item_id)
             s1 == [s EXCEPT !.seen = @ \cup {line.item_id},
                             !.items[line.item_id] = it]
         IN IF it.item_type # RENTAL THEN Raise(s1, "NotRentable")
            ELSE IF it.quantity < line.quantity THEN Raise(s1, "InsufficientStock")
            ELSE LET t0 == The(s1.txn)
                     t1 == [t0 EXCEPT !.lines =
                               Append(@, LineItem(line.item_id, line.quantity, it.price))]
                     r  == NewRental(The(t0.customer), line.item_id, it.price,
                                     line.quantity, rental_days, t0.transaction_number, t)
                 IN DecrementLine([s1 EXCEPT !.txn = Some(t1),
                                             !.new_rentals = Append(@, r)], its, line)

RECURSIVE RentLines(_, _, _, _, _)
RentLines(s, its, cart, rental_days, t) ==
    IF cart = <<>> THEN s
    ELSE RentLines(RentLine(s, its, Head(cart), rental_days, t), its, Tail(cart), rental_days, t)

\* the session of a whole create_rental call (phone given)
RentalSession(seen, number, phone, cart, rental_days, method, amount_tendered) ==
    LET s1 == RentBegin(NewSession, seen, customers, transactions, number, method, phone, now)
        s2 == RentLines(s1, items, cart, rental_days, now)
    IN SaleTotals(s2, coupons, amount_tendered, now)

\* TransactionService.create_rental: without a phone it raises before the
\* session is touched
RentalCall(seen, number, phone, cart, rental_days, method, amount_tendered) ==
    IF ~Truthy(phone) THEN Raise(NewSession, "CustomerRequired")
    ELSE RentalSession(seen, number, phone, cart, rental_days, method, amount_tendered)

CreateRental(number, phone, cart, rental_days, method, amount_tendered) ==
    /\ Len(transactions) < MaxTxns
    /\ LET s == RentalCall(customers, number, phone, cart, rental_days, method, amount_tendered)
       IN /\ Settle(s)
          /\ last' = Result("create_rental", s,
                            [cart |-> cart, phone |-> phone, rental_days |-> rental_days,
                             amount_tendered |-> amount_tendered])
    /\ UNCHANGED <<now, sess>>

\* the filter without returned=False
ActiveRentalAny(rs, phone, i) ==
    LET ks == {k \in 1..Len(rs) : rs[k].customer = phone /\ rs[k].item = i}
    IN IF ks = {} THEN 0 ELSE CHOOSE k \in ks : \A j \in ks : k <= j

\* Rental.query.filter_by(customer, item, returned=False).first(): the index
\* of the oldest such rental, or 0
ActiveRental(rs, phone, i) ==
    LET ks == {k \in 1..Len(rs) : rs[k].customer = phone /\ rs[k].item = i /\ ~rs[k].returned}
    IN IF ks = {} THEN 0 ELSE CHOOSE k \in ks : \A j \in ks : k <= j

\* process_return lines 259-276 on rental k: the rental's return, the restock
\* of its item, the RETURN transaction of a late fee, the flush at commit
ReturnRental(s, its, rs, txns, k, number, t) ==
    LET r  == RentalProcessReturn(rs[k], t, FeePerDay * Unit)
        a  == ItemAddStock(SessItem(s, its, r.item), r.quantity)
        s1 == [s EXCEPT !.rentals = Some([rs EXCEPT ![k] = r]), !.rdirty = @ \cup {k},
                        !.seen = @ \cup {r.item}, !.dirty = @ \cup {r.item},
                        !.items[r.item] = a.item]
        tx == [NewTransaction(number, RETURN, Some(r.customer), CASH, t)
                  EXCEPT !.total = r.late_fee, !.subtotal = r.late_fee]
    IN IF ~a.ok THEN Raise(s1, a.err)
       ELSE IF r.late_fee > 0
       THEN IF number \in TxnNumbers(txns)
            THEN Raise([s1 EXCEPT !.txn = Some(tx)], "IntegrityError")
            ELSE [s1 EXCEPT !.txn = Some(tx)]
       ELSE s1

\* process_return lines 240-257: the three queries, and what they raise
ReturnLookup(phone, i) ==
    IF phone = None \/ The(phone) \notin customers THEN "CustomerNotFound"
    ELSE IF i \notin ItemIds \/ ~items[i].present THEN "ItemNotFound"
    ELSE IF ActiveRental(rentals, The(phone), i) = 0 THEN "NoActiveRental"
    ELSE ""

\* the session of a whole process_return call
ReturnSession(number, phone, i) ==
    IF ReturnLookup(phone, i) # "" THEN Raise(NewSession, ReturnLookup(phone, i))
    ELSE ReturnRental(NewSession, items, rentals, transactions,
                      ActiveRental(rentals, The(phone), i), number, now)

\* what process_return hands back from session s for the rental k it found
ReturnResult(s, phone, i, k) ==
    [Result("process_return", s, NoArgs)
        EXCEPT !.at = 0,
               !.args = [phone |-> phone, item |-> i,
                         rental |-> IF s.err = "" THEN k ELSE 0],
               !.ret = IF s.err = "" THEN The(s.rentals)[k].late_fee ELSE 0]

\* TransactionService.process_return, nothing else running meanwhile
ProcessReturn(number, phone, i) ==
    /\ LET s == ReturnSession(number, phone, i)
       IN /\ Settle(s)
          /\ last' = ReturnResult(s, phone, i,
                                  IF s.err = "" THEN ActiveRental(rentals, The(phone), i) ELSE 0)
    /\ UNCHANGED <<now, sess>>

\* rental.process_return() on the stored rental k, then the commit: the
\* rental's fields, the restock of its item, the fee returned
ReturnCall(op, k) ==
    LET r == RentalProcessReturn(rentals[k], now, FeePerDay * Unit)
        a == ItemAddStock(items[r.item], r.quantity)
    IN /\ rentals' = [rentals EXCEPT ![k] = r]
       /\ items' = [items EXCEPT ![r.item] = a.item]
       /\ last' = [Done(op, [rental |-> k]) EXCEPT !.ret = r.late_fee]
       /\ UNCHANGED <<coupons, customers, transactions, now, sess>>

\* Rental.process_return called on rental k
RentalReturnCall(k) ==
    /\ k \in 1..Len(rentals)
    /\ items[rentals[k].item].quantity + rentals[k].quantity <= MaxStock
    /\ ReturnCall("Rental.process_return", k)

\* RentalService.process_return(rental): a returned rental is refused
SvcProcessReturn(k) ==
    /\ k \in 1..Len(rentals)
    /\ IF rentals[k].returned
       THEN /\ last' = Failed("RentalService.process_return", "AlreadyReturned",
                              [rental |-> k], 0)
            /\ UNCHANGED <<db, now, sess>>
       ELSE ReturnCall("RentalService.process_return", k)

\* Rental.extend_rental(additional_days) called on rental k, and committed
RentalExtendCall(k, additional_days) ==
    /\ k \in 1..Len(rentals)
    /\ rentals' = [rentals EXCEPT ![k] = RentalExtend(rentals[k], additional_days)]
    /\ last' = Done("Rental.extend_rental", [rental |-> k, days |-> additional_days])
    /\ UNCHANGED <<items, coupons, customers, transactions, now, sess>>

\* the checks without the one of days
ExtendErrorNoDays(r, days) == IF r.returned THEN "AlreadyReturned" ELSE ""

\* the checks of RentalService.extend_rental, in their order
ExtendError(r, days) ==
    IF r.returned THEN "AlreadyReturned"
    ELSE IF days <= 0 THEN "InvalidDuration"
    ELSE ""

\* RentalService.extend_rental(rental, days)
SvcExtendRental(k, days) ==
    /\ k \in 1..Len(rentals)
    /\ IF ExtendError(rentals[k], days) # ""
       THEN /\ last' = Failed("RentalService.extend_rental", ExtendError(rentals[k], days),
                              [rental |-> k, days |-> days], 0)
            /\ UNCHANGED <<db, now, sess>>
       ELSE /\ rentals' = [rentals EXCEPT ![k] = RentalExtend(rentals[k], days)]
            /\ last' = Done("RentalService.extend_rental", [rental |-> k, days |-> days])
            /\ UNCHANGED <<items, coupons, customers, transactions, now, sess>>

\* ------------------------------------------------- reporting aggregators
RECURSIVE SumOf(_)
\* sum(...) of a list of numbers
SumOf(ns) == IF ns = <<>> THEN 0 ELSE Head(ns) + SumOf(Tail(ns))

RECURSIVE SumOver(_, _)
\* func.sum over the rows ids of a column given as a function
SumOver(f, ids) ==
    IF ids = {} THEN 0
    ELSE LET i == CHOOSE x \in ids : TRUE IN f[i] + SumOver(f, ids \ {i})

\* InventoryService.deactivate_item and activate_item: is_active is set and
\* committed
SetItemActive(op, i, active) ==
    /\ items[i].present
    /\ items' = [items EXCEPT ![i].is_active = active]
    /\ last' = Done(op, [item |-> i])
    /\ UNCHANGED <<coupons, customers, transactions, rentals, now, sess>>

DeactivateItem(i) == SetItemActive("deactivate_item", i, FALSE)

ActivateItem(i) == SetItemActive("activate_item", i, TRUE)

\* InventoryService.get_inventory_stats over the rows with is_active = True
GetInventoryStats(its) ==
    LET active == {i \in ItemIds : its[i].present /\ its[i].is_active}
    IN [total_items  |-> Cardinality(active),
        sale_items   |-> Cardinality({i \in active : its[i].item_type = SALE}),
        rental_items |-> Cardinality({i \in active : its[i].item_type = RENTAL}),
        low_stock    |-> Cardinality({i \in active : its[i].quantity <= LowStockThreshold}),
        out_of_stock |-> Cardinality({i \in active : its[i].quantity = 0}),
        total_value  |-> SumOver([i \in ItemIds |-> its[i].price * its[i].quantity], active)]

\* RentalService.get_overdue_rentals: unreturned and due before the clock
GetOverdueRentals(rs, t) == {k \in 1..Len(rs) : ~rs[k].returned /\ rs[k].due_date < t}

\* RentalService.get_rental_stats
GetRentalStats(rs, t) ==
    [active_rentals   |-> Cardinality({k \in 1..Len(rs) : ~rs[k].returned}),
     overdue_rentals  |-> Cardinality(GetOverdueRentals(rs, t)),
     returned_rentals |-> Cardinality({k \in 1..Len(rs) : rs[k].returned}),
     total_late_fees_collected |->
         SumOf([k \in 1..Len(rs) |-> IF rs[k].returned THEN rs[k].late_fee ELSE 0]),
     pending_late_fees |->
         SumOf([k \in 1..Len(rs) |-> IF k \in GetOverdueRentals(rs, t)
                                      THEN CalculateLateFee(rs[k], t, FeePerDay * Unit)
                                      ELSE 0])]

\* TransactionService.get_daily_sales(date): date defaults to the clock's day
GetDailySales(txns, date, t) ==
    LET day == IF date = None THEN t \div TicksPerDay ELSE The(date)
        of_day(k) == txns[k].created_at \div TicksPerDay = day
        total(type) == SumOf([k \in 1..Len(txns) |->
                                IF of_day(k) /\ txns[k].transaction_type = type
                                THEN txns[k].total ELSE 0])
    IN [date |-> day,
        transaction_count |-> Cardinality({k \in 1..Len(txns) : of_day(k)}),
        total_sales   |-> total(SALE),
        total_rentals |-> total(RENTAL),
        total_returns |-> total(RETURN),
        grand_total   |-> total(SALE) + total(RENTAL) + total(RETURN)]

\* a get_coupon_stats that counts as active the coupons not expired by now
GetCouponStatsByClock(cs) ==
    LET rows == {c \in Codes : cs[c].present}
        active == {c \in rows : cs[c].is_active /\ ~IsExpired(cs[c], now)}
    IN [total_coupons    |-> Cardinality(rows),
        active_coupons   |-> Cardinality(active),
        inactive_coupons |-> Cardinality(rows) - Cardinality(active),
        total_uses       |-> SumOver([c \in Codes |-> cs[c].times_used], rows)]

\* CouponService.get_coupon_stats
GetCouponStats(cs) ==
    LET rows == {c \in Codes : cs[c].present}
        active == {c \in rows : cs[c].is_active}
    IN [total_coupons    |-> Cardinality(rows),
        active_coupons   |-> Cardinality(active),
        inactive_coupons |-> Cardinality(rows) - Cardinality(active),
        total_uses       |-> SumOver([c \in Codes |-> cs[c].times_used], rows)]

\* a call of an aggregator: it returns its record and writes nothing
StatsCall(op, args, ret) ==
    /\ last' = [Done(op, args) EXCEPT !.ret = ret]
    /\ UNCHANGED <<db, now, sess>>

\* the clock moves on
Tick ==
    /\ now < MaxTime
    /\ now' = now + 1
    /\ last' = Done("tick", NoArgs)
    /\ UNCHANGED <<items, coupons, customers, transactions, rentals, sess>>

\* ---------------------------------------------------------- CouponService
\* CouponService.update_coupon: every argument is optional (None: keep)
UpdateCoupon(c, percent, amount, max_uses, expires_at) ==
    /\ coupons[c].present
    /\ coupons' = [coupons EXCEPT
            ![c].discount_percent = IF percent = None THEN @ ELSE The(percent),
            ![c].discount_amount = IF amount = None THEN @ ELSE The(amount),
            ![c].max_uses = IF max_uses = None THEN @ ELSE max_uses,
            ![c].expires_at = IF expires_at = None THEN @ ELSE expires_at]
    /\ last' = Done("update_coupon", NoArgs)
    /\ UNCHANGED <<items, customers, transactions, rentals, now, sess>>

\* CouponService.use_coupon: coupon.use() and the commit, with no check
UseCoupon(c) ==
    /\ coupons[c].present
    /\ coupons' = [coupons EXCEPT ![c] = Use(@)]
    /\ last' = Done("use_coupon", [code |-> c])
    /\ UNCHANGED <<items, customers, transactions, rentals, now, sess>>

\* CouponService.delete_coupon: the row is deleted, and the coupon_id of the
\* transactions that refer to it (Coupon.transactions) is set to NULL
DeleteCoupon(c) ==
    /\ coupons[c].present
    /\ coupons' = [coupons EXCEPT ![c] = NoCoupon]
    /\ transactions' = [k \in 1..Len(transactions) |->
                           IF transactions[k].coupon = Some(c)
                           THEN [transactions[k] EXCEPT !.coupon = None]
                           ELSE transactions[k]]
    /\ last' = Done("delete_coupon", [code |-> c])
    /\ UNCHANGED <<items, customers, rentals, now, sess>>

\* CouponService.deactivate_coupon
DeactivateCoupon(c) ==
    /\ coupons[c].present
    /\ coupons' = [coupons EXCEPT ![c].is_active = FALSE]
    /\ last' = Done("deactivate_coupon", NoArgs)
    /\ UNCHANGED <<items, customers, transactions, rentals, now, sess>>

\* CouponService.activate_coupon
ActivateCoupon(c) ==
    /\ coupons[c].present
    /\ coupons' = [coupons EXCEPT ![c].is_active = TRUE]
    /\ last' = Done("activate_coupon", NoArgs)
    /\ UNCHANGED <<items, customers, transactions, rentals, now, sess>>

\* the answers of CouponService.validate_coupon
Invalid(message) == [valid |-> FALSE, message |-> message, discount |-> 0, coupon |-> None]

\* a validation that tests the expiry before the active flag
ValidateExpiryFirst(cs, code, purchase_amount, t) ==
    LET found == GetCouponByCode(cs, code)
    IN IF found = None THEN Invalid("Coupon not found")
       ELSE LET c == cs[The(found)]
            IN IF IsExpired(c, t) THEN Invalid("Coupon has expired")
               ELSE IF ~c.is_active THEN Invalid("Coupon is inactive")
               ELSE IF IsUsageExceeded(c) THEN Invalid("Coupon usage limit reached")
               ELSE IF purchase_amount < c.minimum_purchase
               THEN Invalid("Minimum purchase required")
               ELSE [valid |-> TRUE, message |-> "Coupon valid", coupon |-> found,
                     discount |-> CalculateDiscount(c, t, purchase_amount)]

\* CouponService.validate_coupon: the dict it returns
ValidateCoupon(cs, code, purchase_amount, t) ==
    LET found == GetCouponByCode(cs, code)
    IN IF found = None THEN Invalid("Coupon not found")
       ELSE LET c == cs[The(found)]
            IN IF ~c.is_active THEN Invalid("Coupon is inactive")
               ELSE IF IsExpired(c, t) THEN Invalid("Coupon has expired")
               ELSE IF IsUsageExceeded(c) THEN Invalid("Coupon usage limit reached")
               ELSE IF purchase_amount < c.minimum_purchase
               THEN Invalid("Minimum purchase required")
               ELSE [valid |-> TRUE, message |-> "Coupon valid", coupon |-> found,
                     discount |-> CalculateDiscount(c, t, purchase_amount)]

\* a call of validate_coupon: nothing is written
ValidateCouponCall(code, purchase_amount) ==
    /\ last' = [Done("validate_coupon", [code |-> code, amount |-> purchase_amount])
                  EXCEPT !.ret = ValidateCoupon(coupons, code, purchase_amount, now)]
    /\ UNCHANGED <<db, now, sess>>

\* a call of coupon.calculate_discount(amount) on the stored coupon c
CalculateDiscountCall(c, amount) ==
    /\ coupons[c].present
    /\ last' = [Done("calculate_discount", [coupon |-> c, amount |-> amount])
                  EXCEPT !.ret = CalculateDiscount(coupons[c], now, amount)]
    /\ UNCHANGED <<db, now, sess>>

\* ------------------------------------------------------------ row makers
Item(price, quantity, type) ==
    [present |-> TRUE, price |-> price * Unit, quantity |-> quantity, item_type |-> type,
     is_active |-> TRUE]

\* a row as Coupon.__init__ leaves it (create_coupon has validated it)
Coupon(percent, amount, max_uses, expires_at, minimum_purchase) ==
    [present |-> TRUE, discount_percent |-> percent, discount_amount |-> amount,
     minimum_purchase |-> minimum_purchase, max_uses |-> max_uses, times_used |-> 0,
     is_active |-> TRUE, expires_at |-> expires_at]

\* CouponService.create_coupon: the four validations, the uniqueness check
\* on the upper-cased code, then the insert
CreateCouponError(cs, code, percent, amount) ==
    IF percent = 0 /\ amount = 0 THEN "CouponError"
    ELSE IF percent > 0 /\ amount > 0 THEN "CouponError"
    ELSE IF percent < 0 \/ percent > 100 THEN "CouponError"
    ELSE IF amount < 0 THEN "CouponError"
    ELSE IF GetCouponByCode(cs, code) # None THEN "CouponError"
    ELSE ""

\* CouponService.create_coupon: the checks of lines 77-92 on the coupons as
\* its query found them (seen), then the insert and the commit of lines
\* 94-105 into the table as it is by then, where code is unique; the
\* IntegrityError of the commit is not caught
CreateCouponCall(seen, code, percent, amount, max_uses, expires_at, minimum_purchase) ==
    /\ Upper(code) \in Codes
    /\ LET e == CreateCouponError(seen, code, percent, amount)
       IN IF e # ""
          THEN /\ UNCHANGED coupons
               /\ last' = Failed("create_coupon", e, NoArgs, 0)
          ELSE IF coupons[Upper(code)].present
          THEN /\ UNCHANGED coupons
               /\ last' = Failed("create_coupon", "IntegrityError", NoArgs, 0)
          ELSE /\ coupons' = [coupons EXCEPT ![Upper(code)] =
                                  Coupon(percent, amount, max_uses, expires_at, minimum_purchase)]
               /\ last' = Done("create_coupon", NoArgs)
    /\ UNCHANGED <<items, customers, transactions, rentals, now>>

\* create_coupon with nothing committed between its query and its insert
CreateCoupon(code, percent, amount, max_uses, expires_at, minimum_purchase) ==
    /\ CreateCouponCall(coupons, code, percent, amount, max_uses, expires_at, minimum_purchase)
    /\ UNCHANGED sess

\* ------------------------------------------------------- InventoryService
\* InventoryService.add_item
\* InventoryService.add_item: existing is what the query of line 127 found;
\* the insert is committed at line 141 into the table as it is by then, where
\* item_id is unique; the IntegrityError of the commit is not caught
AddItemCall(existing, i, price, quantity, type) ==
    /\ IF existing
       THEN /\ last' = Failed("add_item", "AlreadyExists", [item |-> i], 0)
            /\ UNCHANGED items
       ELSE IF items[i].present
       THEN /\ last' = Failed("add_item", "IntegrityError", [item |-> i], 0)
            /\ UNCHANGED items
       ELSE /\ items' = [items EXCEPT ![i] = Item(price, quantity, type)]
            /\ last' = Done("add_item", [item |-> i])
    /\ UNCHANGED <<coupons, customers, transactions, rentals, now>>

\* add_item with nothing committed between its query and its insert
AddItem(i, price, quantity, type) ==
    /\ AddItemCall(items[i].present, i, price, quantity, type)
    /\ UNCHANGED sess

\* InventoryService.update_item: price and quantity are optional (None: keep)
UpdateItem(i, price, quantity) ==
    /\ items[i].present
    /\ items' = [items EXCEPT
            ![i].price = IF price = None THEN @ ELSE The(price) * Unit,
            ![i].quantity = IF quantity = None THEN @ ELSE The(quantity)]
    /\ last' = Done("update_item", [item |-> i])
    /\ UNCHANGED <<coupons, customers, transactions, rentals, now, sess>>

\* an add_stock that adds one unit whatever the amount
SvcAddStockOne(it, amount) ==
    IF amount <= 0 THEN [ok |-> FALSE, err |-> "InvalidQuantity", item |-> it]
    ELSE ItemAddStock(it, 1)

\* the row and the result of InventoryService.add_stock(item, amount)
SvcAddStock(it, amount) ==
    IF amount <= 0 THEN [ok |-> FALSE, err |-> "InvalidQuantity", item |-> it]
    ELSE ItemAddStock(it, amount)

\* the row and the result of InventoryService.remove_stock(item, amount)
SvcRemoveStock(it, amount) ==
    IF amount <= 0 THEN [ok |-> FALSE, err |-> "InvalidQuantity", item |-> it]
    ELSE IF amount > it.quantity THEN [ok |-> FALSE, err |-> "InsufficientStock", item |-> it]
    ELSE ItemRemoveStock(it, amount)

\* a ledger call on item i: the row is written when the call returned; an
\* InsufficientStock error reports the quantity available
LedgerCall(op, i, amount, r) ==
    /\ items[i].present
    /\ items' = [items EXCEPT ![i] = IF r.ok THEN r.item ELSE @]
    /\ last' = IF r.ok THEN Done(op, [item |-> i, amount |-> amount])
               ELSE Failed(op, r.err, [item |-> i, amount |-> amount],
                           IF r.err = "InsufficientStock" THEN items[i].quantity ELSE 0)
    /\ UNCHANGED <<coupons, customers, transactions, rentals, now, sess>>

\* InventoryService.add_stock
AddStock(i, amount) ==
    /\ items[i].quantity + amount <= MaxStock
    /\ LedgerCall("add_stock", i, amount, SvcAddStock(items[i], amount))

\* InventoryService.remove_stock
RemoveStock(i, amount) ==
    LedgerCall("remove_stock", i, amount, SvcRemoveStock(items[i], amount))

\* item.add_stock(amount) followed by a commit, as the settlement engine uses it
ItemAddStockCall(i, amount) ==
    /\ items[i].quantity + amount <= MaxStock
    /\ LedgerCall("Item.add_stock", i, amount, ItemAddStock(items[i], amount))

\* item.remove_stock(amount) followed by a commit
ItemRemoveStockCall(i, amount) ==
    LedgerCall("Item.remove_stock", i, amount, ItemRemoveStock(items[i], amount))

\* ------------------------------------------------------------ initial state
InitItems ==
    [i \in ItemIds |-> CASE i = "I1" -> Item(2, 2, SALE)
                         [] i = "I2" -> Item(3, 1, SALE)
                         [] OTHER -> Item(1, 2, RENTAL)]

NoLast == [op |-> "", ok |-> TRUE, err |-> "", at |-> 0, args |-> NoArgs, ret |-> 0]

NoLedger == [initial |-> 0, added |-> 0, removed |-> 0, calls |-> 0]

\* the SAVE coupons the sale flow starts from: as create_coupon stores them,
\* after a use, after deactivate_coupon
SaveRows ==
    { Coupon(10, 0, None, None, 0),
      Coupon(50, 0, Some(1), None, 0),
      Coupon(50, 0, Some(2), None, 0),
      [Coupon(10, 0, Some(1), None, 0) EXCEPT !.times_used = 1],
      Coupon(10, 0, None, None, 3 * Unit),
      Coupon(10, 0, None, Some(0), 0),
      [Coupon(10, 0, None, None, 0) EXCEPT !.is_active = FALSE] }

\* the store before the sales: the SAVE coupon is one of rows
InitSaleWith(rows) ==
    /\ items = InitItems
    /\ \E row \in rows :
          coupons = [c \in Codes |-> IF c = "SAVE" THEN row
                                     ELSE Coupon(0, 1 * Unit, None, None, 0)]
    /\ customers = {"555"}
    /\ transactions = <<>>
    /\ rentals = <<>>
    /\ now = 1
    /\ last = NoLast
    /\ ledger = NoLedger
    /\ sess = <<>>

InitSale == InitSaleWith({Coupon(10, 0, None, None, 0)})

InitSaleCoupon == InitSaleWith(SaveRows)

\* ------------------------------------------------------------ sale flow
CartLine(i, q) == [item_id |-> i, quantity |-> q]

CartsOver(lines) == UNION {[1..n -> lines] : n \in 0..MaxCartLen}

OneLine(lines) == {<<l>> : l \in lines}

SaleLineArgs == {CartLine("I1", 1), CartLine("I2", 1), CartLine("NOPE", 1)}

\* the identifier generator: a number not in use, or one in use
NumberArgs == {Len(transactions) + 1, Len(transactions)}

\* carts of every shape, without coupon or customer
SaleOfCart ==
    \E cart \in CartsOver(SaleLineArgs) :
        CreateSale(Len(transactions) + 1, cart, CASH, 0, None, None) /\ UNCHANGED ledger

\* a coupon code typed in any case, a code of no coupon, a fixed-amount coupon
SaleWithCoupon ==
    \E cart \in OneLine(SaleLineArgs \cup {CartLine("I1", -1)}), code \in {{"save"}, {"FLAT"}, {"none"}} :
        CreateSale(Len(transactions) + 1, cart, CASH, 0, code, None) /\ UNCHANGED ledger

\* a known, a new and an empty customer phone; a fresh or a colliding number
SaleWithCustomer ==
    \E cart \in OneLine({CartLine("I1", 1), CartLine("I2", 0), CartLine("NOPE", 1)}),
       number \in NumberArgs, phone \in {{""}, {"555"}, {"777"}} :
        CreateSale(number, cart, CREDIT, 0, None, phone) /\ UNCHANGED ledger

NextSale == SaleOfCart \/ SaleWithCoupon \/ SaleWithCustomer

SpecSale == InitSale /\ [][NextSale]_vars

\* sales that name a coupon, from every state of the SAVE coupon
NextSaleCoupon == SaleWithCoupon

SpecSaleCoupon == InitSaleCoupon /\ [][NextSaleCoupon]_vars

\* ------------------------------------------------------------ stock ledger
\* the ledger calls made on item I1 so far: its quantity at the start, the
\* amounts of the calls that added and of the calls that removed, the number
\* of calls
InitLedger ==
    /\ \E q \in 0..2 :
          /\ items = [InitItems EXCEPT !["I1"].quantity = q]
          /\ ledger = [initial |-> q, added |-> 0, removed |-> 0, calls |-> 0]
    /\ coupons = [c \in Codes |-> NoCoupon]
    /\ customers = {}
    /\ transactions = <<>>
    /\ rentals = <<>>
    /\ now = 0
    /\ last = NoLast
    /\ sess = <<>>

Tally(adds, amount) ==
    ledger' = [ledger EXCEPT
                 !.calls = @ + 1,
                 !.added = @ + (IF adds /\ last'.ok THEN amount ELSE 0),
                 !.removed = @ + (IF ~adds /\ last'.ok THEN amount ELSE 0)]

AmountArgs == {-1, 0, 1, 2}

LedgerAddStock ==
    \E amount \in AmountArgs :
        ledger.calls < MaxOps /\ AddStock("I1", amount) /\ Tally(TRUE, amount)

LedgerRemoveStock ==
    \E amount \in AmountArgs :
        ledger.calls < MaxOps /\ RemoveStock("I1", amount) /\ Tally(FALSE, amount)

LedgerItemAddStock ==
    \E amount \in AmountArgs :
        ledger.calls < MaxOps /\ ItemAddStockCall("I1", amount) /\ Tally(TRUE, amount)

LedgerItemRemoveStock ==
    \E amount \in AmountArgs :
        ledger.calls < MaxOps /\ ItemRemoveStockCall("I1", amount) /\ Tally(FALSE, amount)

NextLedger ==
    LedgerAddStock \/ LedgerRemoveStock \/ LedgerItemAddStock \/ LedgerItemRemoveStock

SpecLedger == InitLedger /\ [][NextLedger]_vars

\* C4: after any sequence of add_stock and remove_stock calls the item's
\* quantity is its initial quantity plus the amounts of the calls that added
\* minus the amounts of the calls that removed (failed calls count nothing),
\* and it is never negative.
C4_LedgerSum ==
    /\ items["I1"].quantity = ledger.initial + ledger.added - ledger.removed
    /\ items["I1"].quantity >= 0

\* C4 witness: stock was added and removed, and failed calls lie in between
C4_Witness ==
    /\ ledger.added >= 2 /\ ledger.removed >= 2
    /\ ledger.calls = MaxOps
    /\ ~last.ok /\ last.op = "remove_stock" /\ last.err = "InsufficientStock"

LedgerOps == {"add_stock", "remove_stock", "Item.add_stock", "Item.remove_stock"}
RemoveOps == {"remove_stock", "Item.remove_stock"}

\* C5 (as claimed): add_stock and remove_stock with an amount <= 0 fail
\* (InvalidQuantity), remove_stock with an amount above the quantity fails
\* (InsufficientStock, reporting the quantity available), and a failed call
\* leaves the quantity unchanged; for the InventoryService operations and
\* for Item.add_stock / Item.remove_stock alike.
C5_LedgerRejects ==
    [][last'.op \in LedgerOps =>
         /\ last'.args.amount <= 0 => (~last'.ok /\ last'.err = "InvalidQuantity")
         /\ (last'.op \in RemoveOps /\ last'.args.amount > 0
               /\ last'.args.amount > items["I1"].quantity)
            => (~last'.ok /\ last'.err = "InsufficientStock"
                  /\ last'.ret = items["I1"].quantity)
         /\ ~last'.ok => items' = items]_vars

\* ------------------------------------------------------------ the system
\* the store as seeded: a sale item, a rental item, one customer, one coupon
Init ==
    /\ items = [InitItems EXCEPT !["I2"] = NoItem, !["I1"].quantity = 1, !["R1"].quantity = 1]
    /\ coupons = [c \in Codes |-> IF c = "SAVE" THEN Coupon(10, 0, None, None, 0) ELSE NoCoupon]
    /\ customers = {"555"}
    /\ transactions = <<>>
    /\ rentals = <<>>
    /\ now = 0
    /\ last = NoLast
    /\ ledger = NoLedger
    /\ sess = [pending |-> None]

\* one more call, while the budget of calls lasts
Budget == ledger.calls < MaxOps /\ ledger' = [ledger EXCEPT !.calls = @ + 1]

DoAddItem ==
    \E a \in {<<"I2", 1>>, <<"I1", 1>>, <<"I2", -1>>} :
        Budget /\ AddItem(a[1], 1, a[2], SALE)

\* add_item line 127 of a caller who finds no item of that id: the caller's
\* insert comes later, other calls may commit in between
DoAddItemQuery ==
    /\ Budget
    /\ sess.pending = None
    /\ ~items["I2"].present
    /\ sess' = [pending |-> Some([item |-> "I2", existing |-> items["I2"].present])]
    /\ UNCHANGED <<db, now, last>>

\* add_item lines 131-141 of that caller
DoAddItemInsert ==
    /\ sess.pending # None
    /\ AddItemCall(The(sess.pending).existing, The(sess.pending).item, 1, 1, SALE)
    /\ sess' = [pending |-> None]
    /\ UNCHANGED ledger

DoUpdateItem ==
    \E quantity \in {Some(2), Some(-1)} : Budget /\ UpdateItem("I1", None, quantity)

DoAddStock == \E amount \in {0, 1} : Budget /\ AddStock("I1", amount)

DoRemoveStock == \E amount \in {1, 2} : Budget /\ RemoveStock("I1", amount)

DoCreateSale ==
    \E line \in {CartLine("I1", 1), CartLine("I1", 2)} :
        Budget /\ CreateSale(Len(transactions) + 1, <<line>>, CASH, 0, None, None)

DoCreateRental ==
    \E a \in {<<"R1", {"555"}>>, <<"I1", {"555"}>>, <<"R1", None>>} :
        Budget /\ CreateRental(Len(transactions) + 1, a[2], <<CartLine(a[1], 1)>>, 1, CASH, 0)

DoProcessReturn ==
    \E phone \in {{"555"}, {"777"}} :
        Budget /\ ProcessReturn(Len(transactions) + 1, phone, "R1")

DoTick == Budget /\ Tick

Next ==
    \/ DoAddItem
    \/ DoAddItemQuery
    \/ DoAddItemInsert
    \/ DoUpdateItem
    \/ DoAddStock
    \/ DoRemoveStock
    \/ DoCreateSale
    \/ DoCreateRental
    \/ DoProcessReturn
    \/ DoTick

Spec == Init /\ [][Next]_vars

\* C3 (as claimed): in every reachable state, after any sequence of add_item,
\* update_item, add_stock, remove_stock, create_sale, create_rental and
\* process_return calls, every item's quantity is >= 0.
C3_QuantityNonNegative == \A i \in ItemIds : items[i].quantity >= 0

\* ------------------------------------------------------- coupons and sales
\* the store with one percentage coupon; the code FLAT is free
InitCoupon ==
    /\ items = InitItems
    /\ coupons = [c \in Codes |-> IF c = "SAVE" THEN Coupon(10, 0, None, None, 0) ELSE NoCoupon]
    /\ customers = {"555"}
    /\ transactions = <<>>
    /\ rentals = <<>>
    /\ now = 0
    /\ last = NoLast
    /\ ledger = NoLedger
    /\ sess = [pending |-> None]

CouponCreate ==
    \E code \in {"flat", "save"}, d \in {<<0, 1>>, <<50, 0>>, <<150, 0>>, <<0, 0>>, <<50, 1>>} :
        Budget /\ CreateCoupon(code, d[1], d[2] * Unit, None, None, 0)

\* create_coupon lines 77-92 of a caller whose checks pass: the caller's
\* insert comes later, other calls may commit in between
CouponCreateQuery ==
    \E code \in {"flat", "save"}, d \in {<<0, 1>>, <<50, 0>>} :
        /\ Budget
        /\ sess.pending = None
        /\ CreateCouponError(coupons, code, d[1], d[2] * Unit) = ""
        /\ sess' = [pending |-> Some([code |-> code, percent |-> d[1],
                                      amount |-> d[2] * Unit, seen |-> coupons])]
        /\ UNCHANGED <<db, now, last>>

\* create_coupon lines 94-105 of that caller
CouponCreateInsert ==
    /\ sess.pending # None
    /\ LET c == The(sess.pending)
       IN CreateCouponCall(c.seen, c.code, c.percent, c.amount, None, None, 0)
    /\ sess' = [pending |-> None]
    /\ UNCHANGED ledger

CouponUpdate ==
    \E c \in Codes, percent \in {None, Some(150), Some(0)}, max_uses \in {None, Some(1)} :
        Budget /\ UpdateCoupon(c, percent, None, max_uses, None)

CouponDeactivate == Budget /\ DeactivateCoupon("SAVE")

CouponActivate == Budget /\ ActivateCoupon("SAVE")

CouponUse == Budget /\ UseCoupon("SAVE")

CouponDelete == Budget /\ DeleteCoupon("SAVE")

CouponSale ==
    \E code \in {{"save"}, {"flat"}} :
        Budget /\ CreateSale(Len(transactions) + 1, <<CartLine("I1", 1)>>, CASH, 0, code, None)

CouponRental ==
    Budget /\ CreateRental(Len(transactions) + 1, {"555"}, <<CartLine("R1", 1)>>, 1, CASH, 0)

CouponDiscount ==
    \E c \in Codes, amount \in {0, 2 * Unit} : Budget /\ CalculateDiscountCall(c, amount)

NextCoupon ==
    \/ CouponCreate
    \/ CouponCreateQuery
    \/ CouponCreateInsert
    \/ CouponUpdate
    \/ CouponDeactivate
    \/ CouponActivate
    \/ CouponUse
    \/ CouponDelete
    \/ CouponSale
    \/ CouponRental
    \/ CouponDiscount

SpecCoupon == InitCoupon /\ [][NextCoupon]_vars

\* C7 (as claimed): for every committed SALE or RENTAL transaction, subtotal
\* is the sum over its line items of quantity times unit_price,
\* discount_amount is between 0 and subtotal, tax_amount is (subtotal -
\* discount_amount) times the tax rate, and total is (subtotal -
\* discount_amount) + tax_amount.
C7_TotalsRelations ==
    \A k \in 1..Len(transactions) :
        LET x == transactions[k]
        IN x.transaction_type \in {SALE, RENTAL} =>
              /\ x.subtotal = SumLines(x.lines)
              /\ 0 <= x.discount_amount /\ x.discount_amount <= x.subtotal
              /\ x.tax_amount * TaxRateDen = (x.subtotal - x.discount_amount) * TaxRateNum
              /\ x.total = (x.subtotal - x.discount_amount) + x.tax_amount

\* ------------------------------------------------------------ rental flow
InitRental ==
    /\ items = InitItems
    /\ coupons = [c \in Codes |-> NoCoupon]
    /\ customers = {"555"}
    /\ transactions = <<>>
    /\ rentals = <<>>
    /\ now = 1
    /\ last = NoLast
    /\ ledger = NoLedger
    /\ sess = <<>>

\* a rental item, more of it than there may be left, a sale item, no item
RentLineArgs ==
    {CartLine("R1", 1), CartLine("R1", 2), CartLine("I1", 1), CartLine("NOPE", 1)}

\* the phones a caller passes: none, empty, a known and a new customer
PhoneArgs == {None, {""}, {"555"}, {"777"}}

\* carts of every shape, for a known customer
RentOfCart ==
    \E cart \in CartsOver(RentLineArgs) :
        CreateRental(Len(transactions) + 1, {"555"}, cart, 1, CASH, 0) /\ UNCHANGED ledger

\* any phone, any number of days, a fresh or a colliding number
RentWithCustomer ==
    \E cart \in OneLine({CartLine("R1", 1), CartLine("NOPE", 1)}), phone \in PhoneArgs,
       rental_days \in {0, 2}, number \in NumberArgs :
        CreateRental(number, phone, cart, rental_days, CREDIT, 0) /\ UNCHANGED ledger

NextRental == RentOfCart \/ RentWithCustomer

SpecRental == InitRental /\ [][NextRental]_vars

\* ------------------------------------------------------------ return flow
\* rentals are made for the known customer, the clock moves, and rentals are
\* returned through each of the three entry points
ReturnRent ==
    \E quantity \in {1, 2}, rental_days \in {0, 1} :
        /\ CreateRental(Len(transactions) + 1, {"555"}, <<CartLine("R1", quantity)>>,
                        rental_days, CASH, 0)
        /\ UNCHANGED ledger

ReturnTick == Tick /\ UNCHANGED ledger

ReturnByRental == \E k \in 1..MaxTxns : RentalReturnCall(k) /\ UNCHANGED ledger

ReturnByService == \E k \in 1..MaxTxns : SvcProcessReturn(k) /\ UNCHANGED ledger

ReturnByHandler ==
    \E phone \in {{"555"}, {"777"}}, i \in {"R1", "I1", "NOPE"} :
        ProcessReturn(Len(transactions) + 1, phone, i) /\ UNCHANGED ledger

NextReturn ==
    \/ ReturnRent
    \/ ReturnTick
    \/ ReturnByRental
    \/ ReturnByService
    \/ ReturnByHandler

InitReturn ==
    /\ items = InitItems
    /\ coupons = [c \in Codes |-> NoCoupon]
    /\ customers = {"555"}
    /\ transactions = <<>>
    /\ rentals = <<>>
    /\ now = 0
    /\ last = NoLast
    /\ ledger = NoLedger
    /\ sess = <<>>

SpecReturn == InitReturn /\ [][NextReturn]_vars

\* ------------------------------------------- rentals and returns, mixed
\* a known and a new customer rent the same item, on one line or on two
\* lines of one cart, and return through TransactionService.process_return
MixCarts ==
    {<<CartLine("R1", 1)>>, <<CartLine("R1", 2)>>,
     <<CartLine("R1", 1), CartLine("R1", 1)>>, <<CartLine("R1", 1), CartLine("NOPE", 1)>>}

MixRent ==
    \E phone \in {{"555"}, {"777"}}, cart \in MixCarts :
        /\ CreateRental(Len(transactions) + 1, phone, cart, 1, CASH, 0)
        /\ UNCHANGED ledger

MixReturn ==
    \E phone \in {{"555"}, {"777"}}, i \in {"R1", "I1", "NOPE"} :
        ProcessReturn(Len(transactions) + 1, phone, i) /\ UNCHANGED ledger

NextMix == MixRent \/ MixReturn

SpecMix == InitReturn /\ [][NextMix]_vars

\* ------------------------------------------------------ rental extension
\* rentals are made, returned through the rental service, and extended
\* through the service and through the model's own method
MaxDue == (MaxTime + 1) * TicksPerDay

ExtendRent ==
    /\ CreateRental(Len(transactions) + 1, {"555"}, <<CartLine("R1", 1)>>, 1, CASH, 0)
    /\ UNCHANGED ledger

ExtendReturn == \E k \in 1..MaxTxns : SvcProcessReturn(k) /\ UNCHANGED ledger

ExtendByService ==
    \E k \in 1..MaxTxns, days \in {-1, 0, 1, 2} :
        /\ k \in 1..Len(rentals) /\ rentals[k].due_date + days * TicksPerDay <= MaxDue
        /\ SvcExtendRental(k, days) /\ UNCHANGED ledger

ExtendByRental ==
    \E k \in 1..MaxTxns, days \in {-1, 0, 1} :
        /\ k \in 1..Len(rentals) /\ rentals[k].due_date + days * TicksPerDay \in 0..MaxDue
        /\ RentalExtendCall(k, days) /\ UNCHANGED ledger

NextExtend == ExtendRent \/ ExtendReturn \/ ExtendByService \/ ExtendByRental

SpecExtend == InitReturn /\ [][NextExtend]_vars

\* ------------------------------------------------------- price changes
\* sales and rentals are settled between changes of the items' prices
PriceSale ==
    \E cart \in OneLine({CartLine("I1", 1), CartLine("I2", 1)}), code \in {None, {"SAVE"}} :
        CreateSale(Len(transactions) + 1, cart, CASH, 0, code, None) /\ UNCHANGED ledger

PriceRent ==
    /\ CreateRental(Len(transactions) + 1, {"555"}, <<CartLine("R1", 1)>>, 1, CASH, 0)
    /\ UNCHANGED ledger

PriceUpdate ==
    \E i \in {"I1", "R1"}, price \in {1, 3} :
        UpdateItem(i, Some(price), None) /\ UNCHANGED ledger

NextPrice == PriceSale \/ PriceRent \/ PriceUpdate

SpecPrice == InitSale /\ [][NextPrice]_vars

\* ------------------------------------------------------------ payments
\* sales and rentals paid by each method, with nothing, too little and more
\* than the total tendered
PayArgs == {0, 2 * Unit, 5 * Unit}

PaySale ==
    \E cart \in OneLine({CartLine("I1", 1), CartLine("I2", 1)}),
       method \in {CASH, CREDIT, DEBIT}, amount_tendered \in PayArgs :
        CreateSale(Len(transactions) + 1, cart, method, amount_tendered, None, None)
        /\ UNCHANGED ledger

PayRent ==
    \E method \in {CASH, CREDIT, DEBIT}, amount_tendered \in PayArgs :
        CreateRental(Len(transactions) + 1, {"555"}, <<CartLine("R1", 1)>>, 1,
                     method, amount_tendered)
        /\ UNCHANGED ledger

NextPay == PaySale \/ PayRent

SpecPay == InitSale /\ [][NextPay]_vars

\* ------------------------------------------------------------ reporting
\* rentals, returns and sales are settled, the clock moves, and each
\* aggregator is called; the clock moving is no call, and leaves the record
\* of the last call as it is
InitStats ==
    /\ items = InitItems
    /\ coupons = [c \in Codes |-> IF c = "SAVE" THEN Coupon(10, 0, None, Some(1), 0)
                                  ELSE NoCoupon]
    /\ customers = {"555"}
    /\ transactions = <<>>
    /\ rentals = <<>>
    /\ now = 0
    /\ last = NoLast
    /\ ledger = NoLedger
    /\ sess = <<>>

StatsRent ==
    /\ CreateRental(Len(transactions) + 1, {"555"}, <<CartLine("R1", 1)>>, 0, CASH, 0)
    /\ UNCHANGED ledger

StatsReturn == ProcessReturn(Len(transactions) + 1, {"555"}, "R1") /\ UNCHANGED ledger

StatsSale ==
    /\ CreateSale(Len(transactions) + 1, <<CartLine("I1", 2)>>, CASH, 0, {"SAVE"}, None)
    /\ UNCHANGED ledger

StatsTick ==
    /\ now < MaxTime
    /\ now' = now + 1
    /\ UNCHANGED <<db, last, ledger, sess>>

StatsDeactivate == \E i \in {"I1", "R1"} : DeactivateItem(i) /\ UNCHANGED ledger

StatsActivate == \E i \in {"I1", "R1"} : ActivateItem(i) /\ UNCHANGED ledger

StatsInventory ==
    /\ StatsCall("get_inventory_stats", NoArgs, GetInventoryStats(items))
    /\ UNCHANGED ledger

StatsRental ==
    /\ StatsCall("get_rental_stats", NoArgs, GetRentalStats(rentals, now))
    /\ UNCHANGED ledger

StatsDaily ==
    \E date \in {None, Some(0)} :
        /\ StatsCall("get_daily_sales", [date |-> date], GetDailySales(transactions, date, now))
        /\ UNCHANGED ledger

StatsCoupon ==
    /\ StatsCall("get_coupon_stats", NoArgs, GetCouponStats(coupons))
    /\ UNCHANGED ledger

NextStats ==
    \/ StatsRent
    \/ StatsReturn
    \/ StatsSale
    \/ StatsTick
    \/ StatsDeactivate
    \/ StatsActivate
    \/ StatsInventory
    \/ StatsRental
    \/ StatsDaily
    \/ StatsCoupon

SpecStats == InitStats /\ [][NextStats]_vars

\* ------------------------------------------------------ coupon validation
\* the SAVE coupons validate_coupon is asked about: as create_coupon stores
\* them (with or without expiry, usage cap and minimum purchase), after a
\* use, after deactivate_coupon
ValidateRows ==
    { [Coupon(10, 0, u[1], e, m) EXCEPT !.times_used = u[2], !.is_active = a] :
         u \in {<<None, 0>>, <<Some(1), 0>>, <<Some(1), 1>>},
         e \in {None, Some(0)}, m \in {0, 3 * Unit}, a \in BOOLEAN }

InitValidate ==
    /\ items = InitItems
    /\ \E row \in ValidateRows :
          coupons = [c \in Codes |-> IF c = "SAVE" THEN row ELSE NoCoupon]
    /\ customers = {"555"}
    /\ transactions = <<>>
    /\ rentals = <<>>
    /\ now = 1
    /\ last = NoLast
    /\ ledger = NoLedger
    /\ sess = <<>>

\* a code typed in either case, a code of no coupon, the code of no row
ValidateAny ==
    \E code \in {"save", "SAVE", "flat", "none"}, amount \in {2 * Unit, 3 * Unit} :
        ValidateCouponCall(code, amount) /\ UNCHANGED ledger

NextValidate == ValidateAny

SpecValidate == InitValidate /\ [][NextValidate]_vars

\* ------------------------------------------------------- concurrent sales
\* Two callers run create_sale at the same time, each in its own session.
\* The handler takes no row lock and keeps no version column; what orders the
\* two sessions is the database alone.  A single-writer store (the SQLite
\* default) hands the write lock to the session whose flush at line 71 comes
\* first and keeps the other waiting, or fails its flush when the wait times
\* out; a store with row versions (any server named by DATABASE_URL) lets both
\* sessions read the committed rows.  sess holds the store's kind, the holder
\* of the write lock, and each caller's position, session and cart.
Callers == {"A", "B"}

IdleCall ==
    [pc |-> "idle", s |-> NewSession, qty |-> 0, number |-> 0, ok |-> FALSE,
     phone |-> None, seen |-> {}]

InitConc ==
    /\ \E q \in 1..2 :
          /\ items = [InitItems EXCEPT !["I1"].quantity = q]
          /\ ledger = [NoLedger EXCEPT !.initial = q]
    /\ coupons = [c \in Codes |-> NoCoupon]
    /\ customers = {}
    /\ transactions = <<>>
    /\ rentals = <<>>
    /\ now = 0
    /\ last = NoLast
    /\ \E single \in BOOLEAN :
          sess = [single_writer |-> single, writer |-> None,
                  call |-> [p \in Callers |-> IdleCall]]

LockedOut(p) == sess.single_writer /\ sess.writer # None /\ sess.writer # Some(p)

\* on a store that versions rows, the insert of a customer waits for the
\* caller whose uncommitted insert holds the same phone
WaitsForRow(p) ==
    /\ ~sess.single_writer
    /\ \E q \in Callers \ {p} :
          /\ sess.call[q].pc \in {"lines", "commit"}
          /\ sess.call[q].s.err = ""
          /\ sess.call[p].phone \ sess.call[p].seen
                 \subseteq sess.call[q].s.new_customers
          /\ sess.call[p].phone \ sess.call[p].seen # {}

\* create_sale lines 55-57 of caller p: the customer is looked up
ConcQuery(p, qty, phone) ==
    /\ sess.call[p].pc = "idle"
    /\ sess' = [sess EXCEPT !.call[p] =
                   [IdleCall EXCEPT !.pc = "begin", !.qty = qty, !.phone = phone,
                                    !.seen = customers]]
    /\ UNCHANGED <<db, now, last, ledger>>

\* create_sale lines 58-71 of caller p: the new customer and the Transaction
\* row are flushed; a flush that fails leaves the try block
ConcBegin(p) ==
    /\ sess.call[p].pc = "begin"
    /\ ~LockedOut(p)
    /\ ~WaitsForRow(p)
    /\ LET c == sess.call[p]
           number == IF p = "A" THEN 1 ELSE 2
           s == SaleBegin(NewSession, c.seen, customers, transactions, number, CASH,
                          c.phone, now)
       IN sess' = [sess EXCEPT
               !.writer = IF sess.single_writer /\ s.err = "" THEN Some(p) ELSE @,
               !.call[p].pc = IF s.err = "" THEN "lines" ELSE "commit",
               !.call[p].s = s,
               !.call[p].number = number]
    /\ UNCHANGED <<db, now, last, ledger>>

\* the flush of caller p gives up waiting for the write lock: the handler
\* rolls back and raises TransactionError
ConcTimeout(p) ==
    /\ sess.call[p].pc = "begin"
    /\ LockedOut(p)
    /\ sess' = [sess EXCEPT !.call[p].pc = "done",
                            !.call[p].s = Raise(NewSession, "OperationalError")]
    /\ last' = Failed("create_sale", "OperationalError", NoArgs, 0)
    /\ UNCHANGED <<db, now, ledger>>

\* create_sale lines 74-111 of caller p: the rows are read as committed, the
\* stock check and the decrement are made on the session's copy
ConcLines(p) ==
    /\ sess.call[p].pc = "lines"
    /\ LET c  == sess.call[p]
           s2 == SaleLines(c.s, items, <<CartLine("I1", c.qty)>>)
           s3 == SaleTotals(SaleCoupon(s2, coupons, None, now), coupons, 0, now)
       IN sess' = [sess EXCEPT !.call[p].pc = "commit", !.call[p].s = s3]
    /\ UNCHANGED <<db, now, last, ledger>>

\* create_sale lines 113-122 of caller p: commit, or rollback and raise
ConcFinish(p) ==
    /\ sess.call[p].pc = "commit"
    /\ LET c == sess.call[p]
       IN /\ Settle(c.s)
          /\ last' = Result("create_sale", c.s, NoArgs)
          /\ sess' = [sess EXCEPT !.writer = IF @ = Some(p) THEN None ELSE @,
                                  !.call[p].pc = "done",
                                  !.call[p].ok = (c.s.err = "")]
    /\ UNCHANGED <<now, ledger>>

NextConc ==
    \E p \in Callers :
        \/ \E qty \in 1..2, phone \in {None, {"777"}} : ConcQuery(p, qty, phone)
        \/ ConcBegin(p)
        \/ ConcTimeout(p)
        \/ ConcLines(p)
        \/ ConcFinish(p)

SpecConc == InitConc /\ [][NextConc]_vars

\* ------------------------------- rentals and returns of callers overlapped
\* create_rental and process_return query the tables statement by statement
\* and write later, and nothing is held between the statements: a call of
\* caller p is a sequence of steps, and the steps of the other caller may
\* fall between any two of them. The store is the single-writer one: the
\* first flush of a call takes the write lock and the commit or the rollback
\* gives it back; a flush or a commit that waits for the lock longer than the
\* driver's timeout fails with OperationalError.
IdleOver ==
    [pc |-> "idle", phone |-> None, item |-> "R1", customers |-> {},
     items |-> [i \in ItemIds |-> NoItem], rentals |-> <<>>, k |-> 0, s |-> NewSession]

InitOver ==
    /\ items = InitItems
    /\ coupons = [c \in Codes |-> NoCoupon]
    /\ customers = {"555"}
    /\ transactions = <<>>
    /\ rentals = <<>>
    /\ now = 0
    /\ last = NoLast
    /\ ledger = NoLedger
    /\ sess = [single_writer |-> TRUE, writer |-> None,
               call |-> [p \in Callers |-> IdleOver]]

\* the create_rental calls that have begun and not yet ended
RentalsInFlight ==
    Cardinality({p \in Callers : sess.call[p].pc \in {"rent", "rent_lines"}})

\* the end of a call of caller p that raised: nothing is written
OverRaise(p, result) ==
    /\ sess' = [sess EXCEPT !.call[p] = IdleOver]
    /\ last' = result
    /\ UNCHANGED <<db, now, ledger>>

\* create_rental line 149 of caller p: the customer is looked up
OverRentRead(p, phone) ==
    /\ sess.call[p].pc = "idle"
    /\ Len(transactions) + RentalsInFlight < MaxTxns
    /\ sess' = [sess EXCEPT !.call[p] =
                   [IdleOver EXCEPT !.pc = "rent", !.phone = phone, !.customers = customers]]
    /\ UNCHANGED <<db, now, last, ledger>>

\* create_rental lines 150-164 of caller p: the new customer and the
\* Transaction row are flushed, which takes the write lock; a flush that
\* fails on a unique constraint ends the call
OverRentFlush(p) ==
    /\ sess.call[p].pc = "rent"
    /\ ~LockedOut(p)
    /\ LET c == sess.call[p]
           s == RentBegin(NewSession, c.customers, customers, transactions,
                          Len(transactions) + 1, CASH, c.phone, now)
       IN IF s.err # ""
          THEN OverRaise(p, Result("create_rental", s, NoArgs))
          ELSE /\ sess' = [sess EXCEPT !.writer = Some(p),
                                       !.call[p].pc = "rent_lines", !.call[p].s = s]
               /\ UNCHANGED <<db, now, last, ledger>>

\* the flush of caller p gives up waiting for the write lock
OverRentTimeout(p) ==
    /\ sess.call[p].pc = "rent"
    /\ LockedOut(p)
    /\ OverRaise(p, Failed("create_rental", "OperationalError", NoArgs, 0))

\* create_rental lines 167-219 of caller p, for one R1 and one day: the
\* lines, the totals, the commit or the rollback
OverRentWrite(p) ==
    /\ sess.call[p].pc = "rent_lines"
    /\ LET c == sess.call[p]
           s == SaleTotals(RentLines(c.s, items, <<CartLine("R1", 1)>>, 1, now),
                           coupons, 0, now)
       IN /\ Settle(s)
          /\ last' = Result("create_rental", s,
                            [cart |-> <<CartLine("R1", 1)>>, phone |-> c.phone,
                             rental_days |-> 1, amount_tendered |-> 0])
    /\ sess' = [sess EXCEPT !.writer = None, !.call[p] = IdleOver]
    /\ UNCHANGED <<now, ledger>>

\* what process_return hands back when a query of caller p finds nothing
ReturnRaised(p, e) ==
    ReturnResult(Raise(NewSession, e), sess.call[p].phone, sess.call[p].item, 0)

\* process_return lines 240-242 of caller p: the customer is looked up
OverReturnCustomer(p, phone, i) ==
    /\ sess.call[p].pc = "idle"
    /\ IF phone = None \/ The(phone) \notin customers
       THEN OverRaise(p, ReturnResult(Raise(NewSession, "CustomerNotFound"), phone, i, 0))
       ELSE /\ sess' = [sess EXCEPT !.call[p] =
                           [IdleOver EXCEPT !.pc = "return_item", !.phone = phone,
                                            !.item = i]]
            /\ UNCHANGED <<db, now, last, ledger>>

\* process_return lines 245-247 of caller p: the item row is read into the
\* session
OverReturnItem(p) ==
    /\ sess.call[p].pc = "return_item"
    /\ LET i == sess.call[p].item
       IN IF i \notin ItemIds \/ ~items[i].present
          THEN OverRaise(p, ReturnRaised(p, "ItemNotFound"))
          ELSE /\ sess' = [sess EXCEPT !.call[p].pc = "return_rental",
                                       !.call[p].items = items]
               /\ UNCHANGED <<db, now, last, ledger>>

\* process_return lines 250-257 of caller p: the active rental is looked up
OverReturnRead(p) ==
    /\ sess.call[p].pc = "return_rental"
    /\ LET c == sess.call[p]
           k == ActiveRental(rentals, The(c.phone), c.item)
       IN IF k = 0
          THEN OverRaise(p, ReturnRaised(p, "NoActiveRental"))
          ELSE /\ sess' = [sess EXCEPT !.call[p].pc = "return",
                                       !.call[p].rentals = rentals, !.call[p].k = k]
               /\ UNCHANGED <<db, now, last, ledger>>

\* process_return lines 260-290 of caller p: rental.process_return() on the
\* rows the session read, and the commit of what it changed
OverReturnWrite(p) ==
    /\ sess.call[p].pc = "return"
    /\ ~LockedOut(p)
    /\ LET c == sess.call[p]
           s == ReturnRental(NewSession, c.items, c.rentals, transactions, c.k,
                             Len(transactions) + 1, now)
       IN /\ Settle(s)
          /\ last' = ReturnResult(s, c.phone, c.item, c.k)
    /\ sess' = [sess EXCEPT !.call[p] = IdleOver]
    /\ UNCHANGED <<now, ledger>>

\* the commit of caller p gives up waiting for the write lock: the return
\* is rolled back
OverReturnTimeout(p) ==
    /\ sess.call[p].pc = "return"
    /\ LockedOut(p)
    /\ OverRaise(p, ReturnRaised(p, "OperationalError"))

NextOver ==
    \E p \in Callers :
        \/ \E phone \in {{"555"}, {"777"}} : OverRentRead(p, phone)
        \/ OverRentFlush(p)
        \/ OverRentTimeout(p)
        \/ OverRentWrite(p)
        \/ \E phone \in {{"555"}, {"777"}} : OverReturnCustomer(p, phone, "R1")
        \/ OverReturnItem(p)
        \/ OverReturnRead(p)
        \/ OverReturnWrite(p)
        \/ OverReturnTimeout(p)

SpecOverlap == InitOver /\ [][NextOver]_vars

ConcCommitted == {p \in Callers : sess.call[p].ok}

\* C2 (as claimed): when two create_sale calls run concurrently on an item
\* whose stock is q, with quantities a <= q, b <= q and a + b > q, at most one
\* of the two commits, and afterwards the item's quantity is q minus the sum
\* of the committed quantities.
C2_NoOversell ==
    LET q == ledger.initial
        a == sess.call["A"].qty
        b == sess.call["B"].qty
    IN (/\ \A p \in Callers : sess.call[p].pc = "done"
        /\ a <= q /\ b <= q /\ a + b > q)
       => /\ Cardinality(ConcCommitted) <= 1
          /\ items["I1"].quantity =
                q - (IF sess.call["A"].ok THEN a ELSE 0) - (IF sess.call["B"].ok THEN b ELSE 0)

\* ================================================================ claims
\* --- helpers of the claims about one create_sale step
SaleStep == last'.op = "create_sale"
SaleCommitted == SaleStep /\ last'.ok
SaleAborted == SaleStep /\ ~last'.ok
NewTxn == transactions'[Len(transactions')]
OneTxnAdded ==
    /\ Len(transactions') = Len(transactions) + 1
    /\ SubSeq(transactions', 1, Len(transactions)) = transactions

RECURSIVE CartQty(_, _)
\* total quantity of item i over the lines of a cart
CartQty(cart, i) ==
    IF cart = <<>> THEN 0
    ELSE (IF Head(cart).item_id = i THEN Head(cart).quantity ELSE 0) + CartQty(Tail(cart), i)

RECURSIVE LinesQty(_, _)
LinesQty(lines, i) ==
    IF lines = <<>> THEN 0
    ELSE (IF Head(lines).item = i THEN Head(lines).quantity ELSE 0) + LinesQty(Tail(lines), i)

\* C1: every create_sale call either commits (one Transaction with its line
\* items is added and the stock of each item sold is decremented, together)
\* or aborts with an error; after an aborted call every item, every coupon
\* and the transactions (with their line items), rentals and customers are
\* what they were before the call.
C1_SaleAtomic ==
    [][SaleStep =>
         \/ /\ last'.ok /\ last'.err = ""
            /\ OneTxnAdded
            /\ Len(NewTxn.lines) = Len(last'.args.cart)
            /\ \A i \in ItemIds :
                  items'[i].quantity = items[i].quantity - LinesQty(NewTxn.lines, i)
         \/ /\ ~last'.ok /\ last'.err # ""
            /\ items' = items /\ coupons' = coupons /\ customers' = customers
            /\ transactions' = transactions /\ rentals' = rentals]_vars

\* C1 witness: a sale aborted for insufficient stock at a later line, after
\* earlier lines of the cart had been settled, with the stock as it was
C1_Witness ==
    /\ last.op = "create_sale" /\ ~last.ok
    /\ last.err = "InsufficientStock" /\ last.at >= 1
    /\ items = InitItems /\ transactions = <<>>

\* C6: a committed create_sale adds exactly one Transaction of type SALE with
\* one line item per cart line, in cart order, and decreases each item's
\* quantity by the total quantity of that item over the cart lines; items not
\* in the cart keep their quantity.
C6_SaleCommitEffect ==
    [][SaleCommitted =>
         LET cart == last'.args.cart
         IN /\ OneTxnAdded
            /\ NewTxn.transaction_type = SALE
            /\ Len(NewTxn.lines) = Len(cart)
            /\ \A k \in 1..Len(cart) :
                  /\ NewTxn.lines[k].item = cart[k].item_id
                  /\ NewTxn.lines[k].quantity = cart[k].quantity
            /\ \A i \in ItemIds :
                  items'[i] = [items[i] EXCEPT !.quantity = @ - CartQty(cart, i)]]_vars

\* C6 witness: a committed sale whose cart names item I1 on two lines and
\* sells its whole stock, leaving I2 as it was
C6_Witness ==
    /\ last.op = "create_sale" /\ last.ok
    /\ Len(last.args.cart) = 2
    /\ last.args.cart[1].item_id = "I1" /\ last.args.cart[2].item_id = "I1"
    /\ items["I1"].quantity = 0 /\ items["I2"] = InitItems["I2"]
    /\ Len(transactions) = 1

\* the coupon row a code names before the call, if any
Named(code) == GetCouponByCode(coupons, The(code))

\* the coupon named is inactive, expired or at its usage cap (spelled out)
Unusable(c) ==
    \/ ~c.is_active
    \/ (c.expires_at # None /\ now > The(c.expires_at))
    \/ (c.max_uses # None /\ c.times_used >= The(c.max_uses))

\* C8 (as claimed): a create_sale given the code of a percentage coupon that
\* is valid when looked up commits a transaction that references the coupon,
\* raises its times_used by exactly 1 and carries the discount
\* subtotal * percentage / 100, whatever the number of uses remaining.
C8_ValidCouponDiscounts ==
    [][(SaleCommitted /\ Truthy(last'.args.code) /\ Named(last'.args.code) # None
          /\ coupons[The(Named(last'.args.code))].discount_percent > 0
          /\ ~Unusable(coupons[The(Named(last'.args.code))]))
        => LET c == The(Named(last'.args.code))
           IN /\ NewTxn.coupon = Some(c)
              /\ coupons'[c].times_used = coupons[c].times_used + 1
              /\ NewTxn.discount_amount * PercentDen
                    = NewTxn.subtotal * coupons[c].discount_percent]_vars

\* C9: a create_sale given a code of no coupon, or of a coupon that is
\* inactive, expired or at its usage cap, commits exactly when the same call
\* without a code commits; the transaction has no coupon reference and no
\* discount, and no coupon's times_used changes.
C9_InvalidCouponIgnored ==
    /\ [](\A cart \in OneLine(SaleLineArgs), code \in {{"save"}, {"none"}} :
            (Named(code) = None \/ Unusable(coupons[The(Named(code))]))
            => SaleSession(customers, Len(transactions) + 1, cart, CASH, 0, code, None).err
                 = SaleSession(customers, Len(transactions) + 1, cart, CASH, 0, None, None).err)
    /\ [][(SaleCommitted /\ Truthy(last'.args.code)
             /\ (Named(last'.args.code) = None
                   \/ Unusable(coupons[The(Named(last'.args.code))])))
           => /\ NewTxn.coupon = None
              /\ NewTxn.discount_amount = 0
              /\ coupons' = coupons]_vars

\* C9 witness: a sale committed with the code of an existing coupon that is
\* at its usage cap
C9_Witness ==
    /\ last.op = "create_sale" /\ last.ok /\ last.args.code = {"save"}
    /\ coupons["SAVE"].present /\ coupons["SAVE"].is_active
    /\ coupons["SAVE"].max_uses # None
    /\ coupons["SAVE"].times_used >= The(coupons["SAVE"].max_uses)
    /\ Len(transactions) >= 1
    /\ transactions[Len(transactions)].coupon = None
    /\ transactions[Len(transactions)].subtotal > 0

\* C10 (as claimed): create_sale treats a coupon whose minimum_purchase is
\* greater than the sale's subtotal as invalid: the transaction does not
\* reference it, carries no discount, and its times_used is unchanged.
C10_MinimumPurchaseChecked ==
    [][(SaleCommitted /\ Truthy(last'.args.code) /\ Named(last'.args.code) # None
          /\ coupons[The(Named(last'.args.code))].minimum_purchase > NewTxn.subtotal)
        => /\ NewTxn.coupon = None
           /\ NewTxn.discount_amount = 0
           /\ coupons' = coupons]_vars

\* the transactions that reference coupon c
CouponRefs(c) == {k \in 1..Len(transactions) : transactions[k].coupon = Some(c)}

\* C11: for every coupon with a usage cap, after any sequence of create_sale
\* calls that supply its code, times_used <= max_uses and at most max_uses
\* committed transactions reference the coupon.
C11_UsageCap ==
    \A c \in Codes :
        (coupons[c].present /\ coupons[c].max_uses # None)
        => /\ coupons[c].times_used <= The(coupons[c].max_uses)
           /\ Cardinality(CouponRefs(c)) <= The(coupons[c].max_uses)

\* C11 witness: a capped coupon was used up by one sale, and a later sale that
\* named it committed without it
C11_Witness ==
    /\ coupons["SAVE"].max_uses = Some(1) /\ coupons["SAVE"].times_used = 1
    /\ Len(transactions) = 2
    /\ transactions[1].coupon = Some("SAVE") /\ transactions[2].coupon = None
    /\ last.op = "create_sale" /\ last.ok /\ last.args.code = {"save"}

\* the times_used a coupon row of the seeded store started with
InitialUses(c) ==
    IF c = "SAVE"
    THEN (CHOOSE row \in SaveRows :
             [row EXCEPT !.times_used = 0] = [coupons[c] EXCEPT !.times_used = 0]).times_used
    ELSE 0

\* C12: when coupons are used only through create_sale, each coupon's
\* times_used is its initial value plus the number of committed transactions
\* that reference it (an aborted sale leaves it alone, a sale committed with
\* the coupon adds exactly one), and times_used never decreases.
C12_UsesCountSales ==
    /\ [](\A c \in Codes : coupons[c].times_used = InitialUses(c) + Cardinality(CouponRefs(c)))
    /\ [][/\ \A c \in Codes : coupons'[c].times_used >= coupons[c].times_used
          /\ SaleAborted => coupons' = coupons]_vars

\* C12 witness: one committed sale references the coupon, which counts one
\* use, and the last call was a sale that named a coupon and aborted
C12_Witness ==
    /\ coupons["SAVE"].times_used = 1 /\ InitialUses("SAVE") = 0
    /\ CouponRefs("SAVE") = {1}
    /\ last.op = "create_sale" /\ ~last.ok

\* C13 (as claimed): for every coupon reachable through create_coupon and
\* update_coupon and every amount >= 0, calculate_discount(amount) is between
\* 0 and amount, is 0 when the coupon is not valid or the amount is below
\* minimum_purchase, is amount * percentage / 100 for a percentage coupon and
\* min(fixed, amount) for a fixed-amount coupon.
C13_DiscountBounded ==
    last.op = "calculate_discount" =>
        LET c == coupons[last.args.coupon]
            amount == last.args.amount
        IN /\ 0 <= last.ret /\ last.ret <= amount
           /\ (Unusable(c) \/ amount < c.minimum_purchase) => last.ret = 0
           /\ (~Unusable(c) /\ amount >= c.minimum_purchase /\ c.discount_percent > 0)
                 => last.ret * PercentDen = amount * c.discount_percent
           /\ (~Unusable(c) /\ amount >= c.minimum_purchase /\ c.discount_percent = 0
                 /\ c.discount_amount > 0)
                 => last.ret = Min(c.discount_amount, amount)

\* C15 (as claimed): after any sequence of create_coupon and update_coupon
\* calls every stored coupon has exactly one discount type set, either
\* discount_percent in (0, 100] with discount_amount = 0 or discount_amount
\* > 0 with discount_percent = 0 (codes are stored upper-cased, one row each).
C15_OneDiscountType ==
    \A c \in Codes :
        coupons[c].present =>
            \/ /\ 0 < coupons[c].discount_percent /\ coupons[c].discount_percent <= 100
               /\ coupons[c].discount_amount = 0
            \/ /\ coupons[c].discount_amount > 0
               /\ coupons[c].discount_percent = 0

\* C14: validate_coupon looks the code up case-insensitively and reports the
\* first failing check in the order not found, inactive, expired,
\* usage-exceeded, below minimum purchase; it reports valid, with the
\* discount calculate_discount gives, only when all five checks pass; and it
\* changes no coupon.
C14_ValidateOrder ==
    /\ [](last.op = "validate_coupon" =>
            LET row == Upper(last.args.code)
                found == row \in Codes /\ coupons[row].present
                c == coupons[row]
                amount == last.args.amount
                expired == c.expires_at # None /\ now > The(c.expires_at)
                exceeded == c.max_uses # None /\ c.times_used >= The(c.max_uses)
                r == last.ret
            IN /\ r.message = "Coupon not found" <=> ~found
               /\ r.message = "Coupon is inactive" <=> (found /\ ~c.is_active)
               /\ r.message = "Coupon has expired" <=> (found /\ c.is_active /\ expired)
               /\ r.message = "Coupon usage limit reached"
                     <=> (found /\ c.is_active /\ ~expired /\ exceeded)
               /\ r.message = "Minimum purchase required"
                     <=> (found /\ c.is_active /\ ~expired /\ ~exceeded
                            /\ amount < c.minimum_purchase)
               /\ r.valid <=> (found /\ c.is_active /\ ~expired /\ ~exceeded
                                 /\ amount >= c.minimum_purchase)
               /\ r.valid => /\ r.coupon = Some(row)
                             /\ r.discount * PercentDen = amount * c.discount_percent
               /\ ~r.valid => r.discount = 0)
    /\ [][last'.op = "validate_coupon" => coupons' = coupons]_vars

\* C14 witness: a code typed in lower case names a coupon that is inactive,
\* expired, used up and below its minimum purchase, and only the inactive
\* flag is reported
C14_Witness ==
    /\ last.op = "validate_coupon" /\ last.args.code = "save"
    /\ ~coupons["SAVE"].is_active /\ coupons["SAVE"].expires_at = Some(0)
    /\ coupons["SAVE"].max_uses = Some(1) /\ coupons["SAVE"].times_used = 1
    /\ last.args.amount < coupons["SAVE"].minimum_purchase
    /\ last.ret.message = "Coupon is inactive"

\* --- helpers of the claims about one create_rental step
RentStep == last'.op = "create_rental"

\* line k of the cart names no item, an item that is not for rent, or more
\* than the stock left after the earlier lines of the cart
BadRentLine(cart, k) ==
    LET i == cart[k].item_id
    IN \/ i \notin ItemIds
       \/ ~items[i].present
       \/ items[i].item_type # RENTAL
       \/ items[i].quantity - CartQty(SubSeq(cart, 1, k - 1), i) < cart[k].quantity

\* C16: create_rental fails when the customer phone is absent or when a cart
\* line at any position names a missing item, an item that is not of type
\* RENTAL, or more than the stock left; after a failed call no Rental,
\* Transaction, line item or Customer has been added and every item's
\* quantity is as before the call.
C16_RentalRejects ==
    /\ [](\A cart \in CartsOver(RentLineArgs), phone \in PhoneArgs :
            (~Truthy(phone) \/ \E k \in 1..Len(cart) : BadRentLine(cart, k))
            => RentalCall(customers, Len(transactions) + 1, phone, cart, 1, CASH, 0).err # "")
    /\ [][(RentStep /\ ~last'.ok)
           => /\ items' = items /\ customers' = customers
              /\ transactions' = transactions /\ rentals' = rentals
              /\ coupons' = coupons]_vars

\* C16 witness: a rental aborted for insufficient stock at a later line,
\* after an earlier line had been settled in the session; nothing was kept
C16_Witness ==
    /\ last.op = "create_rental" /\ ~last.ok
    /\ last.err = "InsufficientStock" /\ last.at >= 1
    /\ items = InitItems /\ rentals = <<>> /\ transactions = <<>>

\* C17: a committed create_rental at time T with rental_days = d adds one
\* RENTAL transaction and, for each cart line, exactly one Rental with
\* returned = false, late_fee = 0, the line's quantity, the item's price at
\* that time, due_date = T + d days and references to the customer and to
\* the transaction; each item's quantity decreases by the quantity rented.
C17_RentalCommitEffect ==
    [][(RentStep /\ last'.ok) =>
         LET cart == last'.args.cart
             n == Len(rentals)
         IN /\ OneTxnAdded
            /\ NewTxn.transaction_type = RENTAL
            /\ Len(rentals') = n + Len(cart)
            /\ SubSeq(rentals', 1, n) = rentals
            /\ \A k \in 1..Len(cart) :
                  LET r == rentals'[n + k]
                  IN /\ ~r.returned /\ r.late_fee = 0 /\ r.return_date = None
                     /\ r.item = cart[k].item_id
                     /\ r.quantity = cart[k].quantity
                     /\ r.rental_price = items[cart[k].item_id].price
                     /\ r.due_date = now + last'.args.rental_days * TicksPerDay
                     /\ r.customer = The(last'.args.phone)
                     /\ r.customer \in customers'
                     /\ r.transaction = NewTxn.transaction_number
            /\ \A i \in ItemIds :
                  items'[i] = [items[i] EXCEPT !.quantity = @ - CartQty(cart, i)]]_vars

\* C17 witness: a committed rental for a known customer, then one for a new
\* customer with another number of days, which takes the last unit
C17_Witness ==
    /\ last.op = "create_rental" /\ last.ok /\ last.args.phone = {"777"}
    /\ last.args.rental_days = 2
    /\ Len(rentals) = 2 /\ Len(transactions) = 2
    /\ rentals[1].customer = "555" /\ rentals[2].customer = "777"
    /\ rentals[2].due_date = now + 2 * TicksPerDay
    /\ "777" \in customers /\ items["R1"].quantity = 0

\* --- helpers of the claims about a return
ReturnOps == {"Rental.process_return", "RentalService.process_return", "process_return"}

\* the whole days from the due date of rental r to now, times the fee per
\* day, times the quantity
FeeDue(r) == Max(0, (now - r.due_date) \div TicksPerDay) * (FeePerDay * Unit) * r.quantity

\* the rentals of customer phone and item i
PairRentals(phone, i) ==
    {k \in 1..Len(rentals) : rentals[k].customer = phone /\ rentals[k].item = i}

\* C18 (as claimed): processing the return of an unreturned rental at time
\* now sets returned = true, return_date = now and late_fee = max(0, whole
\* days from due_date to now) * fee_per_day * quantity, returns that fee, and
\* increases the item's quantity by exactly the rental's quantity.
C18_ReturnEffect ==
    [][(last'.op \in ReturnOps /\ last'.ok /\ ~rentals[last'.args.rental].returned) =>
         LET k == last'.args.rental
             r == rentals[k]
         IN /\ rentals'[k].returned
            /\ rentals'[k].return_date = Some(now)
            /\ rentals'[k].late_fee = FeeDue(r)
            /\ last'.ret = FeeDue(r)
            /\ items'[r.item].quantity = items[r.item].quantity + r.quantity]_vars

\* C19 (as claimed): a return of a rental that is already returned fails and
\* changes nothing, through Rental.process_return, RentalService.process_return
\* and TransactionService.process_return alike.
C19_SecondReturnFails ==
    [][(\/ /\ last'.op \in {"Rental.process_return", "RentalService.process_return"}
           /\ rentals[last'.args.rental].returned
        \/ /\ last'.op = "process_return"
           /\ last'.args.phone # None /\ last'.args.item \in ItemIds
           /\ PairRentals(The(last'.args.phone), last'.args.item) # {}
           /\ \A k \in PairRentals(The(last'.args.phone), last'.args.item) :
                 rentals[k].returned)
       => /\ ~last'.ok
          /\ rentals' = rentals /\ items' = items /\ transactions' = transactions]_vars

\* C20 (as claimed): TransactionService.process_return on an active rental
\* at least one full day past its due date adds exactly one transaction of
\* type RETURN whose subtotal and total are the late fee (> 0) and whose
\* tax_amount is 0; on an active rental that is not overdue it adds no
\* transaction and only the rental and the item's stock change.
C20_ReturnTransaction ==
    [][(last'.op = "process_return" /\ last'.args.phone # None
          /\ The(last'.args.phone) \in customers /\ last'.args.item \in ItemIds
          /\ ActiveRental(rentals, The(last'.args.phone), last'.args.item) # 0) =>
         LET k == ActiveRental(rentals, The(last'.args.phone), last'.args.item)
             r == rentals[k]
         IN IF now - r.due_date >= TicksPerDay
            THEN /\ last'.ok
                 /\ OneTxnAdded
                 /\ NewTxn.transaction_type = RETURN
                 /\ NewTxn.subtotal = FeeDue(r) /\ NewTxn.total = FeeDue(r)
                 /\ FeeDue(r) > 0 /\ NewTxn.tax_amount = 0
            ELSE /\ last'.ok
                 /\ transactions' = transactions
                 /\ customers' = customers /\ coupons' = coupons
                 /\ \A j \in 1..Len(rentals) : j # k => rentals'[j] = rentals[j]
                 /\ \A i \in ItemIds : i # r.item => items'[i] = items[i]]_vars

\* C21: TransactionService.process_return fails when the customer is
\* unknown, the item is unknown or the pair has no unreturned rental, and then
\* no rental, item or transaction changes; when the pair has an active rental
\* the call marks exactly one rental of that pair returned and leaves every
\* other rental as it was.
C21_ReturnLookup ==
    [][last'.op = "process_return" =>
         LET phone == last'.args.phone
             i == last'.args.item
         IN IF \/ phone = None \/ The(phone) \notin customers
               \/ i \notin ItemIds \/ ~items[i].present
               \/ \A k \in PairRentals(The(phone), i) : rentals[k].returned
            THEN /\ ~last'.ok
                 /\ rentals' = rentals /\ items' = items /\ transactions' = transactions
            ELSE /\ last'.ok
                 /\ Len(rentals') = Len(rentals)
                 /\ \E k \in PairRentals(The(phone), i) :
                       /\ ~rentals[k].returned /\ rentals'[k].returned
                       /\ \A j \in 1..Len(rentals) : j # k => rentals'[j] = rentals[j]]_vars

\* a return for customer 555 has succeeded while 777 still holds the item
C21_Witness ==
    /\ last.op = "process_return" /\ last.ok /\ last.args.phone = {"555"}
    /\ \E j \in 1..Len(rentals) : rentals[j].customer = "777" /\ ~rentals[j].returned
    /\ \E j \in 1..Len(rentals) : rentals[j].customer = "555" /\ rentals[j].returned

\* C22 (as claimed): every unreturned rental has late_fee = 0 and no
\* return_date, and once a rental is returned it stays returned and no later
\* operation changes its return_date, due_date, quantity or late_fee.
C22_ReturnedImmutable ==
    /\ [](\A k \in 1..Len(rentals) :
             ~rentals[k].returned => rentals[k].late_fee = 0 /\ rentals[k].return_date = None)
    /\ [][\A k \in 1..Len(rentals) :
             rentals[k].returned =>
                 /\ k <= Len(rentals') /\ rentals'[k].returned
                 /\ rentals'[k].return_date = rentals[k].return_date
                 /\ rentals'[k].due_date = rentals[k].due_date
                 /\ rentals'[k].quantity = rentals[k].quantity
                 /\ rentals'[k].late_fee = rentals[k].late_fee]_vars

\* C23: RentalService.extend_rental(rental, days) fails with AlreadyReturned
\* on a returned rental and with InvalidDuration when days <= 0, and leaves
\* due_date as it was; otherwise the new due_date is the old one plus exactly
\* days days and nothing else of the rental, of another rental or of any item
\* changes.
C23_ExtendRental ==
    [][last'.op = "RentalService.extend_rental" =>
         LET k == last'.args.rental
             days == last'.args.days
         IN /\ items' = items /\ transactions' = transactions
            /\ IF rentals[k].returned
               THEN ~last'.ok /\ last'.err = "AlreadyReturned" /\ rentals' = rentals
               ELSE IF days <= 0
               THEN ~last'.ok /\ last'.err = "InvalidDuration" /\ rentals' = rentals
               ELSE /\ last'.ok
                    /\ rentals' = [rentals EXCEPT
                                     ![k].due_date = rentals[k].due_date + days * TicksPerDay]]_vars

\* an unreturned rental has been extended by two days, next to a returned one
C23_Witness ==
    /\ last.op = "RentalService.extend_rental" /\ last.ok /\ last.args.days = 2
    /\ \E k \in 1..Len(rentals) :
          /\ k = last.args.rental /\ ~rentals[k].returned
          /\ rentals[k].due_date = rentals[k].rental_date + 3 * TicksPerDay
    /\ \E j \in 1..Len(rentals) : rentals[j].returned

\* C24: each line item of a committed sale or rental has the unit_price the
\* item had when the call was made, and update_item changes no existing line
\* item and no subtotal, discount_amount, tax_amount or total of an existing
\* transaction.
C24_PriceSnapshot ==
    [][/\ (last'.op \in {"create_sale", "create_rental"} /\ last'.ok) =>
             /\ OneTxnAdded
             /\ \A k \in 1..Len(NewTxn.lines) :
                   NewTxn.lines[k].unit_price = items[NewTxn.lines[k].item].price
       /\ last'.op = "update_item" =>
             /\ Len(transactions') = Len(transactions)
             /\ \A n \in 1..Len(transactions) :
                   /\ transactions'[n].lines = transactions[n].lines
                   /\ transactions'[n].subtotal = transactions[n].subtotal
                   /\ transactions'[n].discount_amount = transactions[n].discount_amount
                   /\ transactions'[n].tax_amount = transactions[n].tax_amount
                   /\ transactions'[n].total = transactions[n].total]_vars

\* item I1 was sold at 3.00, the price update_item had given it, and its
\* price has been changed to 1.00 since the sale
C24_Witness ==
    /\ last.op = "update_item" /\ items["I1"].price = 1 * Unit
    /\ \E n \in 1..Len(transactions) :
          /\ transactions[n].lines = <<LineItem("I1", 1, 3 * Unit)>>
          /\ transactions[n].subtotal = 3 * Unit

\* C25 (as claimed): after a committed create_sale or create_rental given the
\* customer phone P, a Customer with phone P exists (created by the call if
\* absent) and the committed transaction refers to that customer; a sale
\* given no phone commits with no customer reference and creates no customer.
C25_CustomerResolved ==
    [][(last'.op \in {"create_sale", "create_rental"} /\ last'.ok) =>
         LET phone == last'.args.phone
         IN IF Truthy(phone)
            THEN /\ customers' = customers \cup phone
                 /\ NewTxn.customer = phone
            ELSE /\ customers' = customers
                 /\ NewTxn.customer = None]_vars

\* C26: no two persisted transactions share a transaction_number, also when
\* the generated number is already in use: every step leaves the transactions
\* as they were or adds one whose number no earlier transaction has.
C26_NumbersUnique ==
    /\ [](\A m, n \in 1..Len(transactions) :
             transactions[m].transaction_number = transactions[n].transaction_number => m = n)
    /\ [][\/ transactions' = transactions
          \/ /\ OneTxnAdded
             /\ NewTxn.transaction_number \notin TxnNumbers(transactions)]_vars

\* a sale whose number was already in use has been aborted at the flush
C26_Witness ==
    /\ last.op = "create_sale" /\ ~last.ok /\ last.err = "IntegrityError"
    /\ Len(transactions) = 1 /\ items["I1"].quantity = 1

\* C27: every committed sale or rental stores the amount_tendered the caller
\* gave; change_given is max(0, amount_tendered - total) for cash and 0 for
\* credit and debit, so never negative, and a cash settlement tendered less
\* than the total commits with change_given = 0.
C27_Payment ==
    [][(last'.op \in {"create_sale", "create_rental"} /\ last'.err = "") =>
         /\ last'.ok /\ OneTxnAdded
         /\ NewTxn.amount_tendered = last'.args.amount_tendered
         /\ NewTxn.change_given >= 0
         /\ NewTxn.change_given =
               IF NewTxn.payment_method = CASH
               THEN Max(0, NewTxn.amount_tendered - NewTxn.total)
               ELSE 0]_vars

\* a cash sale tendered less than its total is committed without change,
\* after a cash settlement that gave change
C27_Witness ==
    /\ last.op = "create_sale" /\ last.ok /\ Len(transactions) = 2
    /\ transactions[2].payment_method = CASH
    /\ transactions[2].amount_tendered = 2 * Unit
    /\ transactions[2].total > 2 * Unit /\ transactions[2].change_given = 0
    /\ transactions[1].payment_method = CASH /\ transactions[1].change_given > 0

\* --- helpers of the claims about the aggregators
StatsOps == {"get_inventory_stats", "get_rental_stats", "get_daily_sales", "get_coupon_stats"}

\* the step is a call of an aggregator that follows a call of the same
\* aggregator with the same arguments, with no write in between
StatsRepeated == last'.op \in StatsOps /\ last.op = last'.op /\ last.args = last'.args

\* C28 (as claimed): the aggregators change no item, rental, coupon, customer
\* or transaction, and a second call with no write in between returns the
\* same result, also when the clock has moved between the two calls.
C28_StatsIdempotent ==
    [][/\ last'.op \in StatsOps => db' = db
       /\ StatsRepeated => last'.ret = last.ret]_vars

\* C28 (amended): the aggregators change nothing; a second call with no write
\* in between returns the same result from get_inventory_stats,
\* get_coupon_stats and get_daily_sales of a given date, whatever the clock
\* did; from get_daily_sales without a date when both calls fall on the same
\* day; and get_rental_stats returns the same active_rentals,
\* returned_rentals and total_late_fees_collected.
C28_StatsRepeatable ==
    [][/\ last'.op \in StatsOps => db' = db
       /\ StatsRepeated =>
             CASE last'.op = "get_rental_stats" ->
                    /\ last'.ret.active_rentals = last.ret.active_rentals
                    /\ last'.ret.returned_rentals = last.ret.returned_rentals
                    /\ last'.ret.total_late_fees_collected = last.ret.total_late_fees_collected
               [] last'.op = "get_daily_sales" ->
                    (last'.args.date # None \/ last'.ret.date = last.ret.date)
                        => last'.ret = last.ret
               [] OTHER -> last'.ret = last.ret]_vars

\* get_rental_stats has reported an overdue rental with a pending late fee
\* next to a returned one, a full day after the rentals were made
C28_Witness ==
    /\ last.op = "get_rental_stats" /\ now = TicksPerDay
    /\ last.ret.overdue_rentals = 1 /\ last.ret.pending_late_fees = FeePerDay * Unit
    /\ last.ret.returned_rentals = 1

\* C29 (as claimed): a create_sale or create_rental call with a cart line of
\* quantity <= 0 is aborted, so every persisted line item and every rental
\* has quantity >= 1.
C29_QuantitiesPositive ==
    /\ \A n \in 1..Len(transactions) :
          \A k \in 1..Len(transactions[n].lines) : transactions[n].lines[k].quantity >= 1
    /\ \A k \in 1..Len(rentals) : rentals[k].quantity >= 1

\* the units of item i out on rental: the quantities of its unreturned rentals
OutOnRental(rs, i) ==
    SumOf([k \in 1..Len(rs) |-> IF rs[k].item = i /\ ~rs[k].returned
                                THEN rs[k].quantity ELSE 0])

\* C30: every create_rental call, committed or aborted, and every
\* TransactionService.process_return call, successful or failed, leaves each
\* item's quantity plus the quantities of its unreturned rentals unchanged,
\* whatever the other caller does between the call's queries and its commit.
C30_RentalStockConserved ==
    [][last'.op \in {"create_rental", "process_return"} =>
         \A i \in ItemIds :
             items'[i].quantity + OutOnRental(rentals', i)
                 = items[i].quantity + OutOnRental(rentals, i)]_vars

====
